---- MODULE Spec2Model ----
(***************************************************************************)
(* Salfoon Ramadan League: the statistics cache of MatchEngine, the        *)
(* standings table of StandingsCalculator, the points rule of              *)
(* TournamentSystem and the bracket of PlayoffEngine, over the key-value   *)
(* store of LocalStorageManager.                                           *)
(***************************************************************************)
EXTENDS Integers, Sequences, FiniteSets, TLC

VARIABLES
    teams,            \* store key salfoon_teams: sequence of team records
    matches,          \* store key salfoon_matches: sequence of match records
    bracketStructure, \* PlayoffEngine.bracketStructure (in memory)
    storedBracket,    \* store key salfoon_playoffs (persisted snapshot)
    standings,        \* the table the last calculateStandings call returned
    writers,          \* the updateResult call each writer (tab) is in the middle of
    lastOp,           \* the operation that ran last, with its arguments
    lastResult        \* what that operation returned

vars ==
    <<teams, matches, bracketStructure, storedBracket, standings, writers, lastOp, lastResult>>

(***************************************************************************)
(* Bounds of the exploration.                                              *)
(***************************************************************************)
MaxGoals == 1          \* goals entered per side are 0..MaxGoals
MaxPlayed == 3         \* cached `played` counters are explored up to here
MaxArgMatches == 2     \* length of the matches argument of calculateStandings
MaxFormMatches == 6    \* length of the match history folded into `form`
MaxReplaced == 2       \* fixtures of a round robin replaced by arbitrary pairings

(***************************************************************************)
(* Values.                                                                 *)
(***************************************************************************)
Null == -1                    \* a null homeGoals / awayGoals
NoText == "null"              \* a null bestPlayer / postponementReason / team
RamadanDayMin == 3
RamadanDayMax == 23
WinPoints == 3
DrawPoints == 1
LossPoints == 0
FormWindow == 5
PlayoffQualifiers == 4

validStatuses == {"scheduled", "played", "postponed"}
Goals == 0 .. MaxGoals
GoalInputs == {Null} \cup Goals

ZeroStatistics ==
    [played |-> 0, won |-> 0, drawn |-> 0, lost |-> 0,
     goalsFor |-> 0, goalsAgainst |-> 0, points |-> 0]

\* A team record; `name` is the rank of the team's name in the collation
\* order that localeCompare(.., 'ar') uses, so distinct names have distinct ranks.
Team(id, name) == [id |-> id, name |-> name, statistics |-> ZeroStatistics]

Match(id, day, home, away, hg, ag, status, bestPlayer, reason) ==
    [id |-> id, day |-> day, homeTeam |-> home, awayTeam |-> away,
     homeGoals |-> hg, awayGoals |-> ag, status |-> status,
     bestPlayer |-> bestPlayer, postponementReason |-> reason]

(***************************************************************************)
(* Array helpers.                                                          *)
(***************************************************************************)
\* Array.prototype.findIndex, 1-based; 0 when nothing matches
RECURSIVE FindFrom(_, _, _)
FindFrom(seq, id, i) ==
    IF i > Len(seq) THEN 0
    ELSE IF seq[i].id = id THEN i
    ELSE FindFrom(seq, id, i + 1)

FindIndex(seq, id) == FindFrom(seq, id, 1)

\* Array.prototype.splice(i, 1)
RemoveAt(seq, i) == SubSeq(seq, 1, i - 1) \o SubSeq(seq, i + 1, Len(seq))

\* matches.sort((a, b) => a.day - b.day): Array.prototype.sort is stable, an
\* element goes after every element the comparator does not put behind it
RECURSIVE InsertByDay(_, _)
InsertByDay(sorted, m) ==
    IF sorted = <<>> THEN <<m>>
    ELSE IF m.day - Head(sorted).day < 0 THEN <<m>> \o sorted
    ELSE <<Head(sorted)>> \o InsertByDay(Tail(sorted), m)

RECURSIVE SortByDayInto(_, _)
SortByDayInto(seq, acc) ==
    IF seq = <<>> THEN acc
    ELSE SortByDayInto(Tail(seq), InsertByDay(acc, Head(seq)))

SortByDay(seq) == SortByDayInto(seq, <<>>)

(***************************************************************************)
(* TournamentSystem.calculatePoints                                        *)
(***************************************************************************)
\* calculatePoints with `>=` for `>`: level scores count as a home win
calculatePoints_DrawAsHomeWin(m) ==
    IF m.homeGoals = -1 \/ m.awayGoals = -1
    THEN [homePoints |-> 0, awayPoints |-> 0, result |-> "not_played"]
    ELSE IF m.homeGoals >= m.awayGoals
    THEN [homePoints |-> 3, awayPoints |-> 0, result |-> "home_win"]
    ELSE [homePoints |-> 0, awayPoints |-> 3, result |-> "away_win"]

calculatePoints(m) ==
    IF m.homeGoals = Null \/ m.awayGoals = Null
    THEN [homePoints |-> 0, awayPoints |-> 0, result |-> "not_played"]
    ELSE IF m.homeGoals > m.awayGoals
    THEN [homePoints |-> WinPoints, awayPoints |-> LossPoints, result |-> "home_win"]
    ELSE IF m.awayGoals > m.homeGoals
    THEN [homePoints |-> LossPoints, awayPoints |-> WinPoints, result |-> "away_win"]
    ELSE [homePoints |-> DrawPoints, awayPoints |-> DrawPoints, result |-> "draw"]

(***************************************************************************)
(* MatchEngine: the statistics of one match added to the two teams.        *)
(***************************************************************************)
AddHomeStatistics(s, m, p) ==
    [played |-> s.played + 1,
     goalsFor |-> s.goalsFor + m.homeGoals,
     goalsAgainst |-> s.goalsAgainst + m.awayGoals,
     points |-> s.points + p.homePoints,
     won |-> IF p.result = "home_win" THEN s.won + 1 ELSE s.won,
     drawn |-> IF p.result = "draw" THEN s.drawn + 1 ELSE s.drawn,
     lost |-> IF p.result = "away_win" THEN s.lost + 1 ELSE s.lost]

\* the away update that forgets to count a draw
AddAwayStatistics_DrawUncounted(s, m, p) ==
    [played |-> s.played + 1,
     goalsFor |-> s.goalsFor + m.awayGoals,
     goalsAgainst |-> s.goalsAgainst + m.homeGoals,
     points |-> s.points + p.awayPoints,
     won |-> IF p.result = "away_win" THEN s.won + 1 ELSE s.won,
     drawn |-> s.drawn,
     lost |-> IF p.result = "home_win" THEN s.lost + 1 ELSE s.lost]

AddAwayStatistics(s, m, p) ==
    [played |-> s.played + 1,
     goalsFor |-> s.goalsFor + m.awayGoals,
     goalsAgainst |-> s.goalsAgainst + m.homeGoals,
     points |-> s.points + p.awayPoints,
     won |-> IF p.result = "away_win" THEN s.won + 1 ELSE s.won,
     drawn |-> IF p.result = "draw" THEN s.drawn + 1 ELSE s.drawn,
     lost |-> IF p.result = "home_win" THEN s.lost + 1 ELSE s.lost]

\* the home update, then the away update, on the objects found by id
AddMatchStatistics(tms, m) ==
    LET hi == FindIndex(tms, m.homeTeam)
        ai == FindIndex(tms, m.awayTeam)
        p == calculatePoints(m)
        afterHome == [tms EXCEPT ![hi].statistics = AddHomeStatistics(@, m, p)]
    IN [afterHome EXCEPT ![ai].statistics = AddAwayStatistics(@, m, p)]

IsPlayedWithGoals(m) ==
    m.status = "played" /\ m.homeGoals # Null /\ m.awayGoals # Null

\* the incremental update that counts the match for the home team only
updateTeamStatistics_HomeOnly(tms, m, saveOk) ==
    IF ~IsPlayedWithGoals(m) THEN tms
    ELSE IF FindIndex(tms, m.homeTeam) = 0 \/ FindIndex(tms, m.awayTeam) = 0 THEN tms
    ELSE IF ~saveOk THEN tms
    ELSE [tms EXCEPT ![FindIndex(tms, m.homeTeam)].statistics =
                        AddHomeStatistics(@, m, calculatePoints(m))]

\* updateTeamStatistics(match): the teams collection it leaves in the store;
\* saveOk is the outcome of storage.save
updateTeamStatistics(tms, m, saveOk) ==
    IF ~IsPlayedWithGoals(m) THEN tms
    ELSE IF FindIndex(tms, m.homeTeam) = 0 \/ FindIndex(tms, m.awayTeam) = 0 THEN tms
    ELSE IF ~saveOk THEN tms
    ELSE AddMatchStatistics(tms, m)

ResetStatistics(tms) ==
    [i \in 1 .. Len(tms) |-> [tms[i] EXCEPT !.statistics = ZeroStatistics]]

RECURSIVE ReplayMatches(_, _)
ReplayMatches(tms, ms) ==
    IF ms = <<>> THEN tms
    ELSE LET m == Head(ms)
         IN IF FindIndex(tms, m.homeTeam) # 0 /\ FindIndex(tms, m.awayTeam) # 0
            THEN ReplayMatches(AddMatchStatistics(tms, m), Tail(ms))
            ELSE ReplayMatches(tms, Tail(ms))

\* recalculateAllStatistics without the reset of the counters
recalculateAllStatistics_NoReset(tms, ms, saveOk) ==
    IF ~saveOk THEN tms
    ELSE ReplayMatches(tms, SelectSeq(ms, IsPlayedWithGoals))

\* recalculateAllStatistics(): the teams collection it leaves in the store
recalculateAllStatistics(tms, ms, saveOk) ==
    IF ~saveOk THEN tms
    ELSE ReplayMatches(ResetStatistics(tms), SelectSeq(ms, IsPlayedWithGoals))

(***************************************************************************)
(* The MatchEngine operations on the store.  okM and okT are the outcomes  *)
(* of storage.save for the matches and for the teams collection.           *)
(***************************************************************************)
MatchIds == {"m1"}
HomeInputs == {"T1", "T9"}                      \* T9 is not in the store
AwayInputs == {"T2", "T1"}
DayInputs == {RamadanDayMin, RamadanDayMin + 1}
StatusInputs == {NoText} \cup validStatuses \cup {"cancelled"}
ReasonInputs == {NoText, "rain"}
BestPlayerInputs == {NoText, "mvp"}
\* the goals handed to createMatch: none, one side only, a 0 and level goals
CreateScores ==
    {<<Null, Null>>, <<Null, MaxGoals>>, <<0, MaxGoals>>, <<MaxGoals, 0>>,
     <<1, MaxGoals>>, <<MaxGoals, MaxGoals>>}

Op(name) == [name |-> name]

\* validateMatchData: TRUE when the data passes every check
validateMatchData(tms, day, home, away, status) ==
    /\ home # away
    /\ day >= RamadanDayMin /\ day <= RamadanDayMax
    /\ FindIndex(tms, home) # 0
    /\ FindIndex(tms, away) # 0
    /\ (status # NoText => status \in validStatuses)

\* `x || null` on a goals field: 0 is falsy
OrNull(g) == IF g = Null \/ g = 0 THEN Null ELSE g

\* the cached counters stay inside the explored range
WithinPlayed(tms) == \A i \in 1 .. Len(tms) : tms[i].statistics.played <= MaxPlayed

CreateMatch(id, day, home, away, hg, ag, status, reason, okM) ==
    LET newMatch == Match(id, day, home, away, OrNull(hg), OrNull(ag),
                          IF status = NoText THEN "scheduled" ELSE status,
                          NoText, reason)
        succeeds == /\ validateMatchData(teams, day, home, away, status)
                    /\ FindIndex(matches, id) = 0
                    /\ okM
    IN /\ matches' = IF succeeds THEN SortByDay(Append(matches, newMatch)) ELSE matches
       /\ lastOp' = Op("createMatch")
       /\ lastResult' = IF succeeds THEN "success" ELSE "failure"
       /\ UNCHANGED <<teams, bracketStructure, storedBracket, standings, writers>>

\* the match record after updateResult has written the result into it
ResultApplied(m, hg, ag, bestPlayer) ==
    LET g1 == IF hg # Null THEN [m EXCEPT !.homeGoals = hg] ELSE m
        g2 == IF ag # Null THEN [g1 EXCEPT !.awayGoals = ag] ELSE g1
        st == IF g2.homeGoals # Null /\ g2.awayGoals # Null
              THEN [g2 EXCEPT !.status = "played"] ELSE g2
    IN IF bestPlayer # NoText THEN [st EXCEPT !.bestPlayer = bestPlayer] ELSE st

UpdateResult(id, hg, ag, bestPlayer, okM, okT) ==
    LET i == FindIndex(matches, id)
        match == ResultApplied(matches[i], hg, ag, bestPlayer)
        succeeds == i # 0 /\ okM
    IN /\ matches' = IF succeeds THEN [matches EXCEPT ![i] = match] ELSE matches
       /\ teams' = IF succeeds /\ match.status = "played"
                   THEN updateTeamStatistics(teams, match, okT) ELSE teams
       /\ WithinPlayed(teams')
       /\ lastOp' = Op("updateResult")
       /\ lastResult' = IF succeeds THEN "success" ELSE "failure"
       /\ UNCHANGED <<bracketStructure, storedBracket, standings, writers>>

\* the transition table with scheduled added to the targets of played
validateStatusTransition_PlayedToScheduled(oldStatus, newStatus) ==
    \/ oldStatus = "scheduled" /\ newStatus \in {"played", "postponed"}
    \/ oldStatus = "played" /\ newStatus \in {"postponed", "scheduled"}
    \/ oldStatus = "postponed" /\ newStatus \in {"scheduled", "played"}

validateStatusTransition(oldStatus, newStatus) ==
    \/ oldStatus = "scheduled" /\ newStatus \in {"played", "postponed"}
    \/ oldStatus = "played" /\ newStatus \in {"postponed"}
    \/ oldStatus = "postponed" /\ newStatus \in {"scheduled", "played"}

\* the postponement of a played match that leaves its result in place
StatusApplied_GoalsKept(m, status, reason) ==
    IF status = "postponed"
    THEN [m EXCEPT !.status = status, !.postponementReason = reason]
    ELSE [m EXCEPT !.status = status, !.postponementReason = NoText]

\* the match record after setMatchStatus has written the status into it
StatusApplied(m, status, reason) ==
    IF status = "postponed"
    THEN IF m.status = "played"
         THEN [m EXCEPT !.status = status, !.postponementReason = reason,
                        !.homeGoals = Null, !.awayGoals = Null, !.bestPlayer = NoText]
         ELSE [m EXCEPT !.status = status, !.postponementReason = reason]
    ELSE [m EXCEPT !.status = status, !.postponementReason = NoText]

\* the error setMatchStatus throws, by the order of its checks; "none" when
\* it throws nothing
setMatchStatusError(ms, id, status, reason, okM) ==
    LET i == FindIndex(ms, id)
    IN IF status = NoText THEN "status_required"
       ELSE IF status \notin validStatuses THEN "invalid_status"
       ELSE IF i = 0 THEN "not_found"
       ELSE IF ~validateStatusTransition(ms[i].status, status) THEN "invalid_transition"
       ELSE IF status = "postponed" /\ reason = NoText THEN "reason_required"
       ELSE IF ~okM THEN "save_failed"
       ELSE "none"

SetMatchStatus(id, status, reason, okM, okT) ==
    LET i == FindIndex(matches, id)
        oldStatus == IF i = 0 THEN NoText ELSE matches[i].status
        match == StatusApplied(matches[i], status, reason)
        error == setMatchStatusError(matches, id, status, reason, okM)
        succeeds == error = "none"
        saved == [matches EXCEPT ![i] = match]
    IN /\ matches' = IF succeeds THEN saved ELSE matches
       /\ teams' = IF ~succeeds THEN teams
                   ELSE IF oldStatus = "played" /\ status # "played"
                   THEN recalculateAllStatistics(teams, saved, okT)
                   ELSE IF status = "played" /\ match.homeGoals # Null /\ match.awayGoals # Null
                   THEN updateTeamStatistics(teams, match, okT)
                   ELSE teams
       /\ WithinPlayed(teams')
       /\ lastOp' = [name |-> "setMatchStatus", from |-> oldStatus, to |-> status]
       /\ lastResult' = IF succeeds THEN "success" ELSE error
       /\ UNCHANGED <<bracketStructure, storedBracket, standings, writers>>

DeleteMatch(id, okM, okT) ==
    LET i == FindIndex(matches, id)
        succeeds == i # 0 /\ okM
        saved == RemoveAt(matches, i)
    IN /\ matches' = IF succeeds THEN saved ELSE matches
       /\ teams' = IF succeeds /\ matches[i].status = "played"
                   THEN recalculateAllStatistics(teams, saved, okT) ELSE teams
       /\ lastOp' = Op("deleteMatch")
       /\ lastResult' = IF succeeds THEN "success" ELSE "failure"
       /\ UNCHANGED <<bracketStructure, storedBracket, standings, writers>>

RecalculateAllStatistics(okT) ==
    /\ teams' = recalculateAllStatistics(teams, matches, okT)
    /\ lastOp' = Op("recalculateAllStatistics")
    /\ lastResult' = IF okT THEN "success" ELSE "failure"
    /\ UNCHANGED <<matches, bracketStructure, storedBracket, standings, writers>>

NullBracket == [isNull |-> TRUE]

\* the writers on the store (one per open tab), none of them inside a call
Writers == {"A", "B"}
IdleWriter ==
    [pc |-> "idle", matchId |-> NoText, homeGoals |-> Null, awayGoals |-> Null,
     matchesData |-> <<>>, loadedAfter |-> 0, savedAfter |-> 0]
IdleWriters == [w \in Writers |-> IdleWriter]

\* the fixture list the store starts with: one fixture, already played
InitialMatches ==
    <<Match("m0", RamadanDayMin + 1, "T2", "T1", 1, 0, "played", NoText, NoText)>>

\* the store the league starts from: two teams, the initial fixtures, and
\* cached statistics that equal the replay of the played fixtures
Init ==
    /\ teams = recalculateAllStatistics(<<Team("T1", 2), Team("T2", 1)>>, InitialMatches, TRUE)
    /\ matches = InitialMatches
    /\ bracketStructure = NullBracket
    /\ storedBracket = NullBracket
    /\ standings = <<>>
    /\ writers = IdleWriters
    /\ lastOp = Op("init")
    /\ lastResult = "none"

DoCreateMatch ==
    \E id \in MatchIds, day \in DayInputs, home \in HomeInputs, away \in AwayInputs,
       sc \in CreateScores, status \in StatusInputs, reason \in ReasonInputs :
        CreateMatch(id, day, home, away, sc[1], sc[2], status, reason, TRUE)

DoUpdateResult ==
    \E id \in MatchIds, hg \in GoalInputs, ag \in GoalInputs, bp \in BestPlayerInputs :
        UpdateResult(id, hg, ag, bp, TRUE, TRUE)

DoSetMatchStatus ==
    \E id \in MatchIds, status \in StatusInputs \ {NoText}, reason \in ReasonInputs :
        SetMatchStatus(id, status, reason, TRUE, TRUE)

DoDeleteMatch == \E id \in MatchIds : DeleteMatch(id, TRUE, TRUE)

DoRecalculateAllStatistics == RecalculateAllStatistics(TRUE)

Next ==
    \/ DoCreateMatch
    \/ DoUpdateResult
    \/ DoSetMatchStatus
    \/ DoDeleteMatch
    \/ DoRecalculateAllStatistics

Spec == Init /\ [][Next]_vars

(***************************************************************************)
(* StandingsCalculator.calculateStandings                                  *)
(***************************************************************************)
StandingsRow(team) ==
    [teamId |-> team.id, teamName |-> team.name,
     played |-> 0, won |-> 0, drawn |-> 0, lost |-> 0,
     goalsFor |-> 0, goalsAgainst |-> 0, goalDifference |-> 0, points |-> 0,
     form |-> <<>>, qualified |-> FALSE, position |-> 0]

\* standings.find(team => team.teamId === id), 1-based; 0 when not found
RECURSIVE FindRowFrom(_, _, _)
FindRowFrom(rows, id, i) ==
    IF i > Len(rows) THEN 0
    ELSE IF rows[i].teamId = id THEN i
    ELSE FindRowFrom(rows, id, i + 1)

FindRow(rows, id) == FindRowFrom(rows, id, 1)

\* the form left to grow: the slice is never taken
KeepLastFive_NoSlice(form) == form

\* form.slice(-5) when the form is longer than 5
KeepLastFive(form) ==
    IF Len(form) > FormWindow
    THEN SubSeq(form, Len(form) - FormWindow + 1, Len(form))
    ELSE form

\* the body of playedMatches.forEach for one match whose two rows were found
CountMatch(rows, m, hi, ai) ==
    LET p == calculatePoints(m)
        counted == [rows EXCEPT ![hi].played = @ + 1,
                                ![hi].goalsFor = @ + m.homeGoals,
                                ![hi].goalsAgainst = @ + m.awayGoals,
                                ![hi].points = @ + p.homePoints,
                                ![ai].played = @ + 1,
                                ![ai].goalsFor = @ + m.awayGoals,
                                ![ai].goalsAgainst = @ + m.homeGoals,
                                ![ai].points = @ + p.awayPoints]
        decided ==
            IF p.result = "home_win"
            THEN [counted EXCEPT ![hi].won = @ + 1, ![ai].lost = @ + 1,
                                 ![hi].form = Append(@, "W"), ![ai].form = Append(@, "L")]
            ELSE IF p.result = "away_win"
            THEN [counted EXCEPT ![ai].won = @ + 1, ![hi].lost = @ + 1,
                                 ![ai].form = Append(@, "W"), ![hi].form = Append(@, "L")]
            ELSE IF p.result = "draw"
            THEN [counted EXCEPT ![hi].drawn = @ + 1, ![ai].drawn = @ + 1,
                                 ![hi].form = Append(@, "D"), ![ai].form = Append(@, "D")]
            ELSE counted
    IN [decided EXCEPT ![hi].form = KeepLastFive(@), ![ai].form = KeepLastFive(@)]

\* the fold that counts a match for the home team although the away team has no row
FoldMatch_HomeWithoutAway(rows, m) ==
    LET hi == FindRow(rows, m.homeTeam)
        ai == FindRow(rows, m.awayTeam)
    IN IF hi # 0 THEN CountMatch(rows, m, hi, IF ai # 0 THEN ai ELSE hi) ELSE rows

\* a match that names a team without a row is skipped
FoldMatch(rows, m) ==
    LET hi == FindRow(rows, m.homeTeam)
        ai == FindRow(rows, m.awayTeam)
    IN IF hi # 0 /\ ai # 0 THEN CountMatch(rows, m, hi, ai) ELSE rows

\* playedMatches.forEach, in the order of the array
RECURSIVE FoldMatches(_, _)
FoldMatches(rows, ms) ==
    IF ms = <<>> THEN rows
    ELSE FoldMatches(FoldMatch(rows, Head(ms)), Tail(ms))

\* String.prototype.localeCompare on two names, given by their collation ranks
LocaleCompare(a, b) == a - b

\* the comparator without its final criterion, the team name
CompareRows_NoName(a, b) ==
    IF b.points # a.points THEN b.points - a.points
    ELSE IF b.goalDifference # a.goalDifference THEN b.goalDifference - a.goalDifference
    ELSE IF b.goalsFor # a.goalsFor THEN b.goalsFor - a.goalsFor
    ELSE a.goalsAgainst - b.goalsAgainst

\* the comparator of applyTieBreakers: negative puts a before b
CompareRows(a, b) ==
    IF b.points # a.points THEN b.points - a.points
    ELSE IF b.goalDifference # a.goalDifference THEN b.goalDifference - a.goalDifference
    ELSE IF b.goalsFor # a.goalsFor THEN b.goalsFor - a.goalsFor
    ELSE IF a.goalsAgainst # b.goalsAgainst THEN a.goalsAgainst - b.goalsAgainst
    ELSE LocaleCompare(a.teamName, b.teamName)

RECURSIVE InsertRow(_, _)
InsertRow(sorted, r) ==
    IF sorted = <<>> THEN <<r>>
    ELSE IF CompareRows(r, Head(sorted)) < 0 THEN <<r>> \o sorted
    ELSE <<Head(sorted)>> \o InsertRow(Tail(sorted), r)

RECURSIVE SortRowsInto(_, _)
SortRowsInto(rows, acc) ==
    IF rows = <<>> THEN acc
    ELSE SortRowsInto(Tail(rows), InsertRow(acc, Head(rows)))

\* [...teams].sort(comparator), a stable sort
applyTieBreakers(rows) == SortRowsInto(rows, <<>>)

\* the qualification with `<=` for `<`: the fifth row qualifies too
determineQualification_ThroughFifth(sorted) ==
    [i \in 1 .. Len(sorted) |->
        [sorted[i] EXCEPT !.position = i, !.qualified = (i - 1 <= PlayoffQualifiers)]]

determineQualification(sorted) ==
    [i \in 1 .. Len(sorted) |->
        [sorted[i] EXCEPT !.position = i, !.qualified = (i - 1 < PlayoffQualifiers)]]

calculateStandings(tms, ms) ==
    LET initial == [i \in 1 .. Len(tms) |-> StandingsRow(tms[i])]
        folded == FoldMatches(initial, SelectSeq(ms, IsPlayedWithGoals))
        withDifference ==
            [i \in 1 .. Len(folded) |->
                [folded[i] EXCEPT !.goalDifference = folded[i].goalsFor - folded[i].goalsAgainst]]
    IN determineQualification(applyTieBreakers(withDifference))

\* a caller asks for the table of the teams in the store and a list of matches
CalculateStandings ==
    /\ standings' = calculateStandings(teams, matches)
    /\ lastOp' = Op("calculateStandings")
    /\ lastResult' = "table"
    /\ UNCHANGED <<teams, matches, bracketStructure, storedBracket, writers>>

(***************************************************************************)
(* calculateStandings as a function of its inputs: the teams in the store, *)
(* in any order, and a list of matches (specification SpecStandings).      *)
(***************************************************************************)
StandingsTeams == <<Team("T1", 2), Team("T2", 3), Team("T3", 1)>>

IndexPermutations(n) == {p \in [1 .. n -> 1 .. n] : \A i, j \in 1 .. n : p[i] = p[j] => i = j}

TeamOrders ==
    {[i \in 1 .. Len(StandingsTeams) |-> StandingsTeams[p[i]]] :
        p \in IndexPermutations(Len(StandingsTeams))}

\* home and away of the matches handed in; T9 has no team record
ArgPairs ==
    {pr \in {"T1", "T2", "T3"} \X {"T1", "T2", "T3"} : pr[1] # pr[2]}
        \cup {<<"T1", "T9">>, <<"T9", "T2">>}
ArgScores == {<<0, 0>>, <<1, 0>>, <<0, 1>>, <<1, 1>>}

ArgMatches ==
    {Match("m", RamadanDayMin, pr[1], pr[2], sc[1], sc[2], "played", NoText, NoText) :
        pr \in ArgPairs, sc \in ArgScores}
    \cup {Match("m", RamadanDayMin, "T1", "T2", 1, 0, "scheduled", NoText, NoText),
          Match("m", RamadanDayMin, "T1", "T2", Null, 1, "played", NoText, NoText)}

SeqsUpTo(D, n) == UNION {[1 .. k -> D] : k \in 0 .. n}

InitStandings ==
    /\ teams \in TeamOrders
    /\ matches \in SeqsUpTo(ArgMatches, MaxArgMatches)
    /\ bracketStructure = NullBracket
    /\ storedBracket = NullBracket
    /\ standings = <<>>
    /\ writers = IdleWriters
    /\ lastOp = Op("init")
    /\ lastResult = "none"

NextStandings == CalculateStandings

SpecStandings == InitStandings /\ [][NextStandings]_vars

(***************************************************************************)
(* calculateStandings over a longer history of one fixture played on       *)
(* different days, handed in in any order (specification SpecForm).        *)
(***************************************************************************)
FormTeams == <<Team("T1", 2), Team("T2", 1)>>
FormDays == {RamadanDayMin, RamadanDayMin + 1}
FormScores == {<<1, 0>>, <<0, 0>>}

FormMatches ==
    {Match("m", d, "T1", "T2", sc[1], sc[2], "played", NoText, NoText) :
        d \in FormDays, sc \in FormScores}

InitForm ==
    /\ teams = FormTeams
    /\ matches \in SeqsUpTo(FormMatches, MaxFormMatches)
    /\ bracketStructure = NullBracket
    /\ storedBracket = NullBracket
    /\ standings = <<>>
    /\ writers = IdleWriters
    /\ lastOp = Op("init")
    /\ lastResult = "none"

NextForm == CalculateStandings

SpecForm == InitForm /\ [][NextForm]_vars

(***************************************************************************)
(* The league store with its pre-loaded result, under the MatchEngine      *)
(* operations on stored matches, StandingsCalculator.updateStoredStatistics *)
(* and TournamentSystem.resetTournament (specification SpecLeague).        *)
(***************************************************************************)
\* the copy with goalsFor and goalsAgainst taken from each other's field
RowStatistics_GoalsSwapped(row) ==
    [played |-> row.played, won |-> row.won, drawn |-> row.drawn, lost |-> row.lost,
     goalsFor |-> row.goalsAgainst, goalsAgainst |-> row.goalsFor, points |-> row.points]

\* the seven counters of a standings row, as updateStoredStatistics copies them
RowStatistics(row) ==
    [played |-> row.played, won |-> row.won, drawn |-> row.drawn, lost |-> row.lost,
     goalsFor |-> row.goalsFor, goalsAgainst |-> row.goalsAgainst, points |-> row.points]

\* standings.forEach: the statistics of each row written into the team found by id
RECURSIVE StoreRows(_, _)
StoreRows(tms, rows) ==
    IF rows = <<>> THEN tms
    ELSE LET i == FindIndex(tms, Head(rows).teamId)
         IN StoreRows(IF i # 0
                      THEN [tms EXCEPT ![i].statistics = RowStatistics(Head(rows))]
                      ELSE tms,
                      Tail(rows))

\* updateStoredStatistics(): the teams collection it leaves in the store
updateStoredStatistics(tms, ms, saveOk) ==
    IF ~saveOk THEN tms ELSE StoreRows(tms, calculateStandings(tms, ms))

UpdateStoredStatistics(okT) ==
    /\ teams' = updateStoredStatistics(teams, matches, okT)
    /\ lastOp' = Op("updateStoredStatistics")
    /\ lastResult' = IF okT THEN "true" ELSE "false"
    /\ UNCHANGED <<matches, bracketStructure, storedBracket, standings, writers>>

\* resetTournament keeps the pre-loaded result and the statistics of its two teams
KeptMatchId == "match-02"
KeptTeamIds == {"bait-shahra", "may-22"}

ResetMatch(m) ==
    IF m.id # KeptMatchId
    THEN [m EXCEPT !.homeGoals = Null, !.awayGoals = Null, !.status = "scheduled",
                   !.bestPlayer = NoText, !.postponementReason = NoText]
    ELSE m

ResetTeam(t) ==
    IF t.id \notin KeptTeamIds THEN [t EXCEPT !.statistics = ZeroStatistics] ELSE t

\* resetTournament(): the results of the two saves are not looked at
ResetTournament(okM, okT) ==
    /\ matches' = IF okM THEN [i \in 1 .. Len(matches) |-> ResetMatch(matches[i])] ELSE matches
    /\ teams' = IF okT THEN [i \in 1 .. Len(teams) |-> ResetTeam(teams[i])] ELSE teams
    /\ lastOp' = Op("resetTournament")
    /\ lastResult' = "true"
    /\ UNCHANGED <<bracketStructure, storedBracket, standings, writers>>

LeagueTeams == <<Team("bait-shahra", 1), Team("may-22", 2), Team("T3", 3)>>

\* the pre-loaded result and one more fixture
LeagueMatches ==
    <<Match(KeptMatchId, RamadanDayMin, "bait-shahra", "may-22", 1, 0, "played", NoText, NoText),
      Match("m1", RamadanDayMin + 1, "T3", "bait-shahra", Null, Null, "scheduled", NoText, NoText)>>

\* the fixture the operations address; the pre-loaded result is left alone
LeagueMatchIds == {"m1"}

InitLeague ==
    /\ teams = recalculateAllStatistics(LeagueTeams, LeagueMatches, TRUE)
    /\ matches = LeagueMatches
    /\ bracketStructure = NullBracket
    /\ storedBracket = NullBracket
    /\ standings = <<>>
    /\ writers = IdleWriters
    /\ lastOp = Op("init")
    /\ lastResult = "none"

DoUpdateLeagueResult ==
    \E id \in LeagueMatchIds, hg \in GoalInputs, ag \in GoalInputs, bp \in BestPlayerInputs :
        UpdateResult(id, hg, ag, bp, TRUE, TRUE)

DoSetLeagueStatus ==
    \E id \in LeagueMatchIds, status \in validStatuses, reason \in ReasonInputs :
        SetMatchStatus(id, status, reason, TRUE, TRUE)

DoDeleteLeagueMatch == \E id \in LeagueMatchIds : DeleteMatch(id, TRUE, TRUE)

DoUpdateStoredStatistics == UpdateStoredStatistics(TRUE)

DoResetTournament == ResetTournament(TRUE, TRUE)

NextLeague ==
    \/ DoUpdateLeagueResult
    \/ DoSetLeagueStatus
    \/ DoDeleteLeagueMatch
    \/ DoRecalculateAllStatistics
    \/ DoUpdateStoredStatistics
    \/ DoResetTournament

SpecLeague == InitLeague /\ [][NextLeague]_vars

(***************************************************************************)
(* TournamentSystem.validateTournamentStructure over a store of teams and  *)
(* fixtures (specification SpecStructure).  A team id is the sequence of   *)
(* the pieces of its text, so that the key `${home}-${away}` is computed   *)
(* as the template string computes it.                                     *)
(***************************************************************************)
maxTeams == 7
expectedMatches == (maxTeams * (maxTeams - 1)) \div 2

\* the template string `${home}-${away}`
PairKey(home, away) == home \o <<"-">> \o away

\* matches.forEach of validateTournamentStructure from match k on, with the
\* set of keys added so far: the error it throws, "none" when it throws nothing
RECURSIVE CheckMatches(_, _, _, _)
CheckMatches(tms, ms, k, matchPairs) ==
    IF k > Len(ms) THEN "none"
    ELSE LET pair1 == PairKey(ms[k].homeTeam, ms[k].awayTeam)
             pair2 == PairKey(ms[k].awayTeam, ms[k].homeTeam)
         IN IF pair1 \in matchPairs \/ pair2 \in matchPairs THEN "duplicate_match"
            ELSE IF FindIndex(tms, ms[k].homeTeam) = 0 \/ FindIndex(tms, ms[k].awayTeam) = 0
            THEN "invalid_team"
            ELSE CheckMatches(tms, ms, k + 1, matchPairs \cup {pair1})

\* matches.filter(match => match.homeTeam === teamId || match.awayTeam === teamId).length
TeamMatches(ms, teamId) ==
    Cardinality({k \in 1 .. Len(ms) : ms[k].homeTeam = teamId \/ ms[k].awayTeam = teamId})

\* the validation without its last check, the number of matches of each team
validateTournamentStructure_NoTeamMatches(tms, ms) ==
    IF Len(tms) # 7 THEN "team_count"
    ELSE IF Len(ms) # 21 THEN "match_count"
    ELSE IF CheckMatches(tms, ms, 1, {}) # "none" THEN CheckMatches(tms, ms, 1, {})
    ELSE "valid"

\* validateTournamentStructure(): "valid", or the error of the first check that fails
validateTournamentStructure(tms, ms) ==
    IF Len(tms) # maxTeams THEN "team_count"
    ELSE IF Len(ms) # expectedMatches THEN "match_count"
    ELSE IF CheckMatches(tms, ms, 1, {}) # "none" THEN CheckMatches(tms, ms, 1, {})
    ELSE IF \E i \in 1 .. Len(tms) : TeamMatches(ms, tms[i].id) # maxTeams - 1
    THEN "team_matches"
    ELSE "valid"

ValidateTournamentStructure ==
    /\ lastOp' = Op("validateTournamentStructure")
    /\ lastResult' = validateTournamentStructure(teams, matches)
    /\ UNCHANGED <<teams, matches, bracketStructure, storedBracket, standings, writers>>

\* stores of teams: seven, six and eight of them, and seven whose ids hold a dash
TeamsOf(ids) == [i \in 1 .. Len(ids) |-> Team(ids[i], i)]

SevenIds == <<<<"T1">>, <<"T2">>, <<"T3">>, <<"T4">>, <<"T5">>, <<"T6">>, <<"T7">>>>
EightIds == Append(SevenIds, <<"T8">>)
SixIds == SubSeq(SevenIds, 1, 6)
DashedIds == <<<<"a", "-", "b">>, <<"c">>, <<"a">>, <<"b", "-", "c">>, <<"T5">>, <<"T6">>, <<"T7">>>>
MissingId == <<"T9">>

Fixture(k, home, away) ==
    Match(<<"match", k>>, RamadanDayMin, home, away, Null, Null, "scheduled", NoText, NoText)

\* the single round robin of the ids: i against j for every i < j
RECURSIVE PairsFrom(_, _, _)
PairsFrom(ids, i, j) ==
    IF i >= Len(ids) THEN <<>>
    ELSE IF j > Len(ids) THEN PairsFrom(ids, i + 1, i + 2)
    ELSE <<<<ids[i], ids[j]>>>> \o PairsFrom(ids, i, j + 1)

FixturesOf(pairs) == [k \in 1 .. Len(pairs) |-> Fixture(k, pairs[k][1], pairs[k][2])]

RoundRobin(ids) == FixturesOf(PairsFrom(ids, 1, 2))

\* the pairings put in the place of the first fixtures: any two of four of the
\* seven teams and a team that is not in the store, a team against itself included
ReplacementIds == {<<"T1">>, <<"T2">>, <<"T3">>, <<"T7">>, MissingId}

Replaced(ms, pairs) ==
    [k \in 1 .. Len(ms) |->
        IF k <= Len(pairs) THEN Fixture(k, pairs[k][1], pairs[k][2]) ELSE ms[k]]

ReplacedRoundRobins ==
    {Replaced(RoundRobin(SevenIds), pairs) :
        pairs \in SeqsUpTo(ReplacementIds \X ReplacementIds, MaxReplaced)}

\* lists of the wrong length, and a round robin with its last fixture turned round
OtherFixtureLists ==
    LET rr == RoundRobin(SevenIds)
        n == Len(rr)
    IN {<<>>,
        SubSeq(rr, 1, n - 1),
        Append(rr, Fixture(n + 1, rr[1].awayTeam, rr[1].homeTeam)),
        [rr EXCEPT ![n] = Fixture(n, rr[n].awayTeam, rr[n].homeTeam)],
        [rr EXCEPT ![n] = Fixture(n, rr[1].awayTeam, rr[1].homeTeam)]}

InitStructure ==
    /\ \/ /\ teams = TeamsOf(SevenIds)
          /\ matches \in ReplacedRoundRobins \cup OtherFixtureLists
       \/ \E ids \in {SixIds, EightIds, DashedIds} :
             /\ teams = TeamsOf(ids)
             /\ matches \in {RoundRobin(ids), RoundRobin(SevenIds)}
    /\ bracketStructure = NullBracket
    /\ storedBracket = NullBracket
    /\ standings = <<>>
    /\ writers = IdleWriters
    /\ lastOp = Op("init")
    /\ lastResult = "none"

NextStructure == ValidateTournamentStructure

SpecStructure == InitStructure /\ [][NextStructure]_vars

(***************************************************************************)
(* PlayoffEngine: the bracket held in memory and its persisted snapshot.   *)
(* okS is the outcome of storage.save for the bracket.                     *)
(***************************************************************************)
\* a team of the bracket, and the null in its place
BracketTeam(row, seed) == [id |-> row.teamId, seed |-> seed]
NoTeam == [id |-> NoText, seed |-> 0]

Semifinal(id, home, away) ==
    [id |-> id, homeTeam |-> home, awayTeam |-> away, status |-> "scheduled",
     homeGoals |-> Null, awayGoals |-> Null, winner |-> NoTeam, loser |-> NoTeam,
     penaltyResult |-> NoText, matchDate |-> Null]

PendingFinal ==
    [id |-> "final", homeTeam |-> NoTeam, awayTeam |-> NoTeam, status |-> "pending",
     homeGoals |-> Null, awayGoals |-> Null, winner |-> NoTeam,
     champion |-> NoTeam, runnerUp |-> NoTeam, penaltyResult |-> NoText,
     matchDate |-> Null]

PendingThirdPlace ==
    [id |-> "third-place", homeTeam |-> NoTeam, awayTeam |-> NoTeam, status |-> "pending",
     homeGoals |-> Null, awayGoals |-> Null, winner |-> NoTeam, matchDate |-> Null]

\* the bracket seeded 1 v 2 and 3 v 4
NewBracket_AdjacentSeeds(q) ==
    [isNull |-> FALSE,
     semifinals |-> <<Semifinal("semi-1", BracketTeam(q[1], 1), BracketTeam(q[2], 2)),
                      Semifinal("semi-2", BracketTeam(q[3], 3), BracketTeam(q[4], 4))>>,
     final |-> PendingFinal,
     thirdPlace |-> PendingThirdPlace,
     metadata |-> [tournamentPhase |-> "playoffs", champion |-> NoTeam, runnerUp |-> NoTeam]]

\* the bracket structure generatePlayoffBracket builds from the top four rows
NewBracket(q) ==
    [isNull |-> FALSE,
     semifinals |-> <<Semifinal("semi-1", BracketTeam(q[1], 1), BracketTeam(q[4], 4)),
                      Semifinal("semi-2", BracketTeam(q[2], 2), BracketTeam(q[3], 3))>>,
     final |-> PendingFinal,
     thirdPlace |-> PendingThirdPlace,
     metadata |-> [tournamentPhase |-> "playoffs", champion |-> NoTeam, runnerUp |-> NoTeam]]

\* TournamentSystem.generatePlayoffBracket(qualifiedTeams): its two pairings
TournamentBracket(q) ==
    [semifinals |-> <<[id |-> "semi-1", homeTeam |-> q[1], awayTeam |-> q[4]],
                      [id |-> "semi-2", homeTeam |-> q[2], awayTeam |-> q[3]]>>,
     final |-> [id |-> "final", homeTeam |-> NoTeam, awayTeam |-> NoTeam]]

\* saveBracket: the snapshot in the store afterwards
SavedBracket(b, okS) == IF okS THEN b ELSE storedBracket

\* the handler that drops the bracket it holds when the rows are too few
GeneratePlayoffBracket_ResetOnFailure(okS) ==
    LET currentStandings == calculateStandings(teams, matches)
        succeeds == Len(currentStandings) >= 4
        bracket == NewBracket(SubSeq(currentStandings, 1, 4))
    IN /\ bracketStructure' = IF succeeds THEN bracket ELSE NullBracket
       /\ storedBracket' = IF succeeds THEN SavedBracket(bracket, okS) ELSE NullBracket
       /\ lastOp' = Op("generatePlayoffBracket")
       /\ lastResult' = IF succeeds THEN "bracket" ELSE "null"
       /\ UNCHANGED <<teams, matches, standings, writers>>

GeneratePlayoffBracket(okS) ==
    LET currentStandings == calculateStandings(teams, matches)
        succeeds == Len(currentStandings) >= 4
        bracket == NewBracket(SubSeq(currentStandings, 1, 4))
    IN /\ bracketStructure' = IF succeeds THEN bracket ELSE bracketStructure
       /\ storedBracket' = IF succeeds THEN SavedBracket(bracket, okS) ELSE storedBracket
       /\ lastOp' = Op("generatePlayoffBracket")
       /\ lastResult' = IF succeeds THEN "bracket" ELSE "null"
       /\ UNCHANGED <<teams, matches, standings, writers>>

\* the bracket the engine works on: loadBracket fills an empty memory
LoadedBracket == IF bracketStructure.isNull THEN storedBracket ELSE bracketStructure

SemifinalIndex(b, matchId) == FindIndex(b.semifinals, matchId)

\* winner and loser of a match with the goals written into it
Decided(m, penalty) ==
    IF m.homeGoals > m.awayGoals THEN [winner |-> m.homeTeam, loser |-> m.awayTeam]
    ELSE IF m.awayGoals > m.homeGoals THEN [winner |-> m.awayTeam, loser |-> m.homeTeam]
    ELSE IF penalty = "home" THEN [winner |-> m.homeTeam, loser |-> m.awayTeam]
    ELSE [winner |-> m.awayTeam, loser |-> m.homeTeam]

\* the handler that never asks for a penalty result
NeedsPenalty_Never(hg, ag, penalty) == FALSE

\* a level score with no penalty result: the handler throws
NeedsPenalty(hg, ag, penalty) == hg = ag /\ penalty = NoText

\* the progression with `||` for `&&`: one resolved semifinal is enough
updateBracketProgression_EitherSemifinal(b) ==
    LET semi1 == b.semifinals[1]
        semi2 == b.semifinals[2]
        withFinal ==
            IF semi1.winner # NoTeam \/ semi2.winner # NoTeam
            THEN [b EXCEPT !.final.homeTeam = semi1.winner,
                           !.final.awayTeam = semi2.winner,
                           !.final.status = "scheduled"]
            ELSE b
    IN IF semi1.loser # NoTeam \/ semi2.loser # NoTeam
       THEN [withFinal EXCEPT !.thirdPlace.homeTeam = semi1.loser,
                              !.thirdPlace.awayTeam = semi2.loser,
                              !.thirdPlace.status = "scheduled"]
       ELSE withFinal

updateBracketProgression(b) ==
    LET semi1 == b.semifinals[1]
        semi2 == b.semifinals[2]
        withFinal ==
            IF semi1.winner # NoTeam /\ semi2.winner # NoTeam
            THEN [b EXCEPT !.final.homeTeam = semi1.winner,
                           !.final.awayTeam = semi2.winner,
                           !.final.status = "scheduled"]
            ELSE b
    IN IF semi1.loser # NoTeam /\ semi2.loser # NoTeam
       THEN [withFinal EXCEPT !.thirdPlace.homeTeam = semi1.loser,
                              !.thirdPlace.awayTeam = semi2.loser,
                              !.thirdPlace.status = "scheduled"]
       ELSE withFinal

UpdateSemifinalResult(matchId, hg, ag, penalty, okS) ==
    LET b == LoadedBracket
        i == IF b.isNull THEN 0 ELSE SemifinalIndex(b, matchId)
        written == [b EXCEPT !.semifinals[i].homeGoals = hg,
                             !.semifinals[i].awayGoals = ag,
                             !.semifinals[i].status = "completed"]
        d == Decided(written.semifinals[i], penalty)
        resolved == [written EXCEPT
                        !.semifinals[i].penaltyResult = IF hg = ag THEN penalty ELSE @,
                        !.semifinals[i].winner = d.winner,
                        !.semifinals[i].loser = d.loser]
        progressed == updateBracketProgression(resolved)
    IN /\ lastOp' = Op("updateSemifinalResult")
       /\ IF i = 0
          THEN /\ bracketStructure' = b
               /\ storedBracket' = storedBracket
               /\ lastResult' = "null"
          ELSE IF NeedsPenalty(hg, ag, penalty)
          THEN /\ bracketStructure' = written
               /\ storedBracket' = storedBracket
               /\ lastResult' = "null"
          ELSE /\ bracketStructure' = progressed
               /\ storedBracket' = SavedBracket(progressed, okS)
               /\ lastResult' = "match"
       /\ UNCHANGED <<teams, matches, standings, writers>>

\* the handler that only asks for a bracket, not for the finalists
UpdateFinalResult_NoReadyCheck(hg, ag, penalty, okS) ==
    LET b == bracketStructure
        ready == ~b.isNull
        written == [b EXCEPT !.final.homeGoals = hg,
                             !.final.awayGoals = ag,
                             !.final.status = "completed"]
        d == Decided(written.final, penalty)
        resolved == [written EXCEPT
                        !.final.penaltyResult = IF hg = ag THEN penalty ELSE @,
                        !.final.winner = d.winner,
                        !.final.champion = d.winner,
                        !.final.runnerUp = d.loser,
                        !.metadata.tournamentPhase = "completed",
                        !.metadata.champion = d.winner,
                        !.metadata.runnerUp = d.loser]
    IN /\ lastOp' = Op("updateFinalResult")
       /\ IF ~ready
          THEN /\ bracketStructure' = b
               /\ storedBracket' = storedBracket
               /\ lastResult' = "null"
          ELSE IF NeedsPenalty(hg, ag, penalty)
          THEN /\ bracketStructure' = written
               /\ storedBracket' = storedBracket
               /\ lastResult' = "null"
          ELSE /\ bracketStructure' = resolved
               /\ storedBracket' = SavedBracket(resolved, okS)
               /\ lastResult' = "match"
       /\ UNCHANGED <<teams, matches, standings, writers>>

UpdateFinalResult(hg, ag, penalty, okS) ==
    LET b == bracketStructure
        ready == ~b.isNull /\ b.final.homeTeam # NoTeam
        written == [b EXCEPT !.final.homeGoals = hg,
                             !.final.awayGoals = ag,
                             !.final.status = "completed"]
        d == Decided(written.final, penalty)
        resolved == [written EXCEPT
                        !.final.penaltyResult = IF hg = ag THEN penalty ELSE @,
                        !.final.winner = d.winner,
                        !.final.champion = d.winner,
                        !.final.runnerUp = d.loser,
                        !.metadata.tournamentPhase = "completed",
                        !.metadata.champion = d.winner,
                        !.metadata.runnerUp = d.loser]
    IN /\ lastOp' = Op("updateFinalResult")
       /\ IF ~ready
          THEN /\ bracketStructure' = b
               /\ storedBracket' = storedBracket
               /\ lastResult' = "null"
          ELSE IF NeedsPenalty(hg, ag, penalty)
          THEN /\ bracketStructure' = written
               /\ storedBracket' = storedBracket
               /\ lastResult' = "null"
          ELSE /\ bracketStructure' = resolved
               /\ storedBracket' = SavedBracket(resolved, okS)
               /\ lastResult' = "match"
       /\ UNCHANGED <<teams, matches, standings, writers>>

\* generatePlayoffSchedule(startDate): the day of each match, counted from the
\* start date; the bracket in memory is not loaded when it is missing
GeneratePlayoffSchedule(startDate, okS) ==
    LET b == bracketStructure
        dated == [b EXCEPT !.semifinals[1].matchDate = startDate,
                           !.semifinals[2].matchDate = startDate + 2,
                           !.thirdPlace.matchDate = startDate + 4,
                           !.final.matchDate = startDate + 6]
    IN /\ lastOp' = Op("generatePlayoffSchedule")
       /\ IF b.isNull
          THEN /\ bracketStructure' = b
               /\ storedBracket' = storedBracket
               /\ lastResult' = "null"
          ELSE /\ bracketStructure' = dated
               /\ storedBracket' = SavedBracket(dated, okS)
               /\ lastResult' = "schedule"
       /\ UNCHANGED <<teams, matches, standings, writers>>

\* LocalStorageManager.clearAllData removes the keys of this.keys: the teams
\* and the matches are gone (calculateStandings then returns no rows, as it does
\* for empty collections), while salfoon_playoffs is not among those keys
ClearAllData ==
    /\ teams # <<>>
    /\ teams' = <<>>
    /\ matches' = <<>>
    /\ lastOp' = Op("clearAllData")
    /\ lastResult' = "true"
    /\ UNCHANGED <<bracketStructure, storedBracket, standings, writers>>

\* a page load constructs a new PlayoffEngine: nothing is held in memory
NewPlayoffEngine ==
    /\ ~bracketStructure.isNull
    /\ bracketStructure' = NullBracket
    /\ lastOp' = Op("constructor")
    /\ lastResult' = "none"
    /\ UNCHANGED <<teams, matches, storedBracket, standings, writers>>

(***************************************************************************)
(* The playoff phase over a store of five (or three) teams.                *)
(***************************************************************************)
PlayoffTeams ==
    <<Team("T1", 3), Team("T2", 1), Team("T3", 5), Team("T4", 2), Team("T5", 4)>>

\* the group stage the bracket is generated from: one decided fixture, or none
PlayoffHistories ==
    {<<>>,
     <<Match("g1", RamadanDayMin, "T3", "T2", 1, 0, "played", NoText, NoText)>>,
     <<Match("g1", RamadanDayMin, "T5", "T4", 0, 1, "played", NoText, NoText)>>}

SemifinalIds == {"semi-1", "semi-2", "semi-3"}
\* home goals, away goals and the penalty result handed in (none, home, away)
PlayoffResults ==
    {<<1, 0, NoText>>, <<0, 1, NoText>>, <<1, 0, "away">>,
     <<1, 1, NoText>>, <<1, 1, "home">>, <<1, 1, "away">>}

\* the history the whole playoff phase is explored from
PlayoffHistory == <<Match("g1", RamadanDayMin, "T3", "T2", 1, 0, "played", NoText, NoText)>>

InitSemifinals ==
    /\ \/ teams = PlayoffTeams /\ matches \in PlayoffHistories
       \/ teams = SubSeq(PlayoffTeams, 1, 3) /\ matches = <<>>
    /\ bracketStructure = NullBracket
    /\ storedBracket = NullBracket
    /\ standings = <<>>
    /\ writers = IdleWriters
    /\ lastOp = Op("init")
    /\ lastResult = "none"

InitPlayoff ==
    /\ \/ teams = PlayoffTeams /\ matches = PlayoffHistory
       \/ teams = SubSeq(PlayoffTeams, 1, 3) /\ matches = <<>>
    /\ bracketStructure = NullBracket
    /\ storedBracket = NullBracket
    /\ standings = <<>>
    /\ writers = IdleWriters
    /\ lastOp = Op("init")
    /\ lastResult = "none"

DoGeneratePlayoffBracket == GeneratePlayoffBracket(TRUE)

DoUpdateSemifinalResult ==
    \E id \in SemifinalIds, r \in PlayoffResults :
        UpdateSemifinalResult(id, r[1], r[2], r[3], TRUE)

\* the results entered while the whole playoff phase is explored
PhaseResults == {<<1, 0, NoText>>, <<0, 1, NoText>>, <<1, 1, NoText>>, <<1, 1, "home">>}

DoUpdateSemifinalInPhase ==
    \E id \in SemifinalIds, r \in PhaseResults :
        UpdateSemifinalResult(id, r[1], r[2], r[3], TRUE)

DoUpdateFinalResult ==
    \E r \in PhaseResults : UpdateFinalResult(r[1], r[2], r[3], TRUE)

\* the start dates handed in, as days
StartDates == {1}

DoGeneratePlayoffSchedule == \E d \in StartDates : GeneratePlayoffSchedule(d, TRUE)

\* generation and semifinal resolutions only
NextSemifinals ==
    \/ DoGeneratePlayoffBracket
    \/ DoUpdateSemifinalResult
    \/ NewPlayoffEngine
    \/ ClearAllData

SpecSemifinals == InitSemifinals /\ [][NextSemifinals]_vars

NextPlayoff ==
    \/ DoGeneratePlayoffBracket
    \/ DoUpdateSemifinalInPhase
    \/ DoUpdateFinalResult
    \/ DoGeneratePlayoffSchedule
    \/ NewPlayoffEngine

SpecPlayoff == InitPlayoff /\ [][NextPlayoff]_vars

(***************************************************************************)
(* Properties of the statistics cache (specification Spec).                *)
(***************************************************************************)
\* the statistics a replay of the currently played matches gives each team
ReplayedTeams == ReplayMatches(ResetStatistics(teams), SelectSeq(matches, IsPlayedWithGoals))

\* C1: after any sequence of createMatch, updateResult, setMatchStatus and
\* deleteMatch, every team's cached statistics equal the replay of the matches
\* that are played with both goals non-null.
C1_StatisticsEqualReplay ==
    \A i \in 1 .. Len(teams) : teams[i].statistics = ReplayedTeams[i].statistics

\* C6: a full recalculation leaves statistics that a second recalculation of
\* the same stored matches reproduces exactly, whatever the cache held before.
C6_RecalculationIdempotent ==
    (lastOp.name = "recalculateAllStatistics" /\ lastResult = "success")
        => recalculateAllStatistics(teams, matches, TRUE) = teams

\* a recalculation has run over two played matches
C6_Witness ==
    /\ lastOp.name = "recalculateAllStatistics"
    /\ lastResult = "success"
    /\ Len(SelectSeq(matches, IsPlayedWithGoals)) = 2
    /\ teams[1].statistics.played = 2

\* C13: after any sequence of createMatch, updateResult and setMatchStatus,
\* every stored match has both goals null or both non-null, and has non-null
\* goals only when its status is played.
C13_GoalsBothOrNeither ==
    \A i \in 1 .. Len(matches) :
        /\ (matches[i].homeGoals = Null) <=> (matches[i].awayGoals = Null)
        /\ (matches[i].homeGoals # Null \/ matches[i].awayGoals # Null)
              => matches[i].status = "played"

\* C14: after any sequence of createMatch, updateResult and setMatchStatus,
\* every stored match has a non-null postponementReason exactly when its
\* status is postponed.
C14_ReasonIffPostponed ==
    \A i \in 1 .. Len(matches) :
        (matches[i].postponementReason # NoText) <=> (matches[i].status = "postponed")

\* the five transitions of the status of a match
AllowedTransitions ==
    {<<"scheduled", "played">>, <<"scheduled", "postponed">>, <<"postponed", "scheduled">>,
     <<"postponed", "played">>, <<"played", "postponed">>}

\* C15: setMatchStatus succeeds only on scheduled->played, scheduled->postponed,
\* postponed->scheduled, postponed->played and played->postponed; a request for
\* any other transition between statuses fails with the invalid-transition
\* error and leaves the stored matches and all team statistics unchanged.
C15_OnlyAllowedTransitions ==
    /\ []((lastOp.name = "setMatchStatus" /\ lastResult = "success")
            => <<lastOp.from, lastOp.to>> \in AllowedTransitions)
    /\ [][lastOp'.name = "setMatchStatus" =>
            \A id \in MatchIds, status \in validStatuses, reason \in ReasonInputs :
                (/\ FindIndex(matches, id) # 0
                 /\ <<matches[FindIndex(matches, id)].status, status>> \notin AllowedTransitions
                 /\ SetMatchStatus(id, status, reason, TRUE, TRUE))
                => /\ lastResult' = "invalid_transition"
                   /\ matches' = matches
                   /\ teams' = teams]_vars

\* a played match was asked back to scheduled
C15_Witness ==
    /\ lastOp.name = "setMatchStatus"
    /\ lastOp.from = "played"
    /\ lastOp.to = "scheduled"
    /\ lastResult = "invalid_transition"
    /\ \E i \in 1 .. Len(matches) : matches[i].id \in MatchIds /\ matches[i].status = "played"

\* C16: a successful setMatchStatus that moves a played match to postponed
\* leaves the match with homeGoals, awayGoals and bestPlayer null, and every
\* team's stored statistics equal to the replay of the matches still played,
\* whatever the cache held before the call.
C16_PlayedToPostponed ==
    [][(lastOp'.name = "setMatchStatus" /\ lastResult' = "success") =>
          \A id \in MatchIds, reason \in ReasonInputs :
              (/\ FindIndex(matches, id) # 0
               /\ matches[FindIndex(matches, id)].status = "played"
               /\ SetMatchStatus(id, "postponed", reason, TRUE, TRUE))
              => /\ \A i \in 1 .. Len(matches') :
                       matches'[i].id = id =>
                           /\ matches'[i].status = "postponed"
                           /\ matches'[i].homeGoals = Null
                           /\ matches'[i].awayGoals = Null
                           /\ matches'[i].bestPlayer = NoText
                 /\ \A i \in 1 .. Len(teams') :
                       teams'[i].statistics = ReplayedTeams'[i].statistics]_vars

\* a played match with a best player was postponed and the cache was rebuilt
C16_Witness ==
    /\ lastOp.name = "setMatchStatus"
    /\ lastOp.from = "played"
    /\ lastOp.to = "postponed"
    /\ lastResult = "success"
    /\ \E i \in 1 .. Len(matches) :
          /\ matches[i].id \in MatchIds
          /\ matches[i].homeGoals = Null
          /\ matches[i].postponementReason = "rain"
    /\ teams[1].statistics.played = 1

\* C12: in every store state reached by updateResult, setMatchStatus,
\* deleteMatch, recalculateAllStatistics, updateStoredStatistics and
\* resetTournament, every team's cached statistics have played = won + drawn + lost.
C12_PlayedIsWonDrawnLost ==
    \A i \in 1 .. Len(teams) :
        teams[i].statistics.played
            = teams[i].statistics.won + teams[i].statistics.drawn + teams[i].statistics.lost

\* a reset kept a statistics cache that counts a drawn match twice
C12_Witness ==
    /\ lastOp.name = "resetTournament"
    /\ teams[1].statistics.played = 3
    /\ teams[1].statistics.drawn = 2
    /\ teams[3].statistics.played = 0
    /\ Len(matches) = 2
    /\ matches[2].status = "scheduled"

(***************************************************************************)
(* Properties of the standings table (SpecStandings, SpecForm).            *)
(***************************************************************************)
Calculated == lastOp.name = "calculateStandings"

Reverse(seq) == [i \in 1 .. Len(seq) |-> seq[Len(seq) + 1 - i]]

TableOrder(rows) == [i \in 1 .. Len(rows) |-> rows[i].teamId]

\* a comes strictly before b in the tie-break chain
StrictlyBefore(a, b) ==
    \/ a.points > b.points
    \/ a.points = b.points /\ a.goalDifference > b.goalDifference
    \/ a.points = b.points /\ a.goalDifference = b.goalDifference /\ a.goalsFor > b.goalsFor
    \/ a.points = b.points /\ a.goalDifference = b.goalDifference /\ a.goalsFor = b.goalsFor
       /\ a.goalsAgainst < b.goalsAgainst
    \/ a.points = b.points /\ a.goalDifference = b.goalDifference /\ a.goalsFor = b.goalsFor
       /\ a.goalsAgainst = b.goalsAgainst /\ a.teamName < b.teamName

\* C2: the rows come out in the strict order of the tie-break chain (points,
\* goal difference, goals for, fewer goals against, name), and the order of the
\* table is the same for every order of the teams and of the matches.
C2_StrictTotalOrder ==
    Calculated =>
        /\ \A i \in 1 .. Len(standings) - 1 : StrictlyBefore(standings[i], standings[i + 1])
        /\ TableOrder(standings)
             = TableOrder(calculateStandings(StandingsTeams, Reverse(matches)))

\* the name decides between two rows level on every counter, the goals for
\* decide between two others, and the teams were not stored in table order
C2_Witness ==
    /\ Calculated
    /\ teams # StandingsTeams
    /\ Len(matches) = 2
    /\ \E i \in 1 .. Len(standings) - 1 :
          /\ standings[i].points = standings[i + 1].points
          /\ standings[i].goalDifference = standings[i + 1].goalDifference
          /\ standings[i].goalsFor > standings[i + 1].goalsFor
    /\ TableOrder(standings) # TableOrder(calculateStandings(teams, <<>>))

\* the matches of the list that calculateStandings counts
TeamExists(id) == \E i \in 1 .. Len(teams) : teams[i].id = id

CountedMatches ==
    {i \in 1 .. Len(matches) :
        /\ IsPlayedWithGoals(matches[i])
        /\ TeamExists(matches[i].homeTeam)
        /\ TeamExists(matches[i].awayTeam)}

DrawnMatches == {i \in CountedMatches : matches[i].homeGoals = matches[i].awayGoals}

RECURSIVE SumPoints(_, _)
SumPoints(rows, i) == IF i > Len(rows) THEN 0 ELSE rows[i].points + SumPoints(rows, i + 1)

\* C3 as claimed: every played match hands out exactly 3 points, and so the
\* table holds 3 points for every match it counts.
C3_ThreePointsPerMatch ==
    /\ \A i \in 1 .. Len(matches) :
          IsPlayedWithGoals(matches[i]) =>
              calculatePoints(matches[i]).homePoints + calculatePoints(matches[i]).awayPoints = 3
    /\ Calculated => SumPoints(standings, 1) = 3 * Cardinality(CountedMatches)

\* C3: a played match hands out 3 points when one side wins and 2 points when
\* it is drawn, and the table holds exactly those points for the matches it counts.
C3_PointsPerMatch ==
    /\ \A i \in 1 .. Len(matches) :
          IsPlayedWithGoals(matches[i]) =>
              calculatePoints(matches[i]).homePoints + calculatePoints(matches[i]).awayPoints
                = IF matches[i].homeGoals = matches[i].awayGoals THEN 2 ELSE 3
    /\ Calculated =>
          SumPoints(standings, 1)
            = 3 * Cardinality(CountedMatches \ DrawnMatches) + 2 * Cardinality(DrawnMatches)

\* a table over one drawn and one decided match
C3_Witness ==
    /\ Calculated
    /\ Cardinality(DrawnMatches) = 1
    /\ Cardinality(CountedMatches \ DrawnMatches) = 1
    /\ SumPoints(standings, 1) = 5

Min(a, b) == IF a < b THEN a ELSE b

\* C4: the form of a row has min(5, played) entries, so never more than 5.
C4_FormLength ==
    Calculated =>
        \A i \in 1 .. Len(standings) :
            /\ Len(standings[i].form) <= 5
            /\ Len(standings[i].form) = Min(5, standings[i].played)

\* a team with more played matches than the form keeps
C4_Witness ==
    /\ Calculated
    /\ \E i \in 1 .. Len(standings) :
          standings[i].played = 6 /\ Len(standings[i].form) = 5

\* the W/D/L of team id in each of the matches ms, in the order of ms
RECURSIVE ResultsOf(_, _)
ResultsOf(ms, id) ==
    IF ms = <<>> THEN <<>>
    ELSE LET m == Head(ms)
             mine == IF m.homeTeam = id THEN m.homeGoals ELSE m.awayGoals
             theirs == IF m.homeTeam = id THEN m.awayGoals ELSE m.homeGoals
             letter == IF mine > theirs THEN "W" ELSE IF mine < theirs THEN "L" ELSE "D"
         IN IF m.homeTeam = id \/ m.awayTeam = id
            THEN <<letter>> \o ResultsOf(Tail(ms), id)
            ELSE ResultsOf(Tail(ms), id)

LastFive(seq) == IF Len(seq) > 5 THEN SubSeq(seq, Len(seq) - 4, Len(seq)) ELSE seq

\* the counted matches in ascending day order
CountedByDay ==
    SortByDay(SelectSeq(matches,
        LAMBDA m : IsPlayedWithGoals(m) /\ TeamExists(m.homeTeam) /\ TeamExists(m.awayTeam)))

\* C5: for every order of the match records, the form of a row is the results
\* of the team's last five played matches in ascending day order, oldest first.
C5_FormChronological ==
    Calculated =>
        \A i \in 1 .. Len(standings) :
            standings[i].form = LastFive(ResultsOf(CountedByDay, standings[i].teamId))

(***************************************************************************)
(* Properties of the structure validation (SpecStructure).                 *)
(***************************************************************************)
\* the matches between two teams, in either orientation
Meetings(a, b) ==
    {k \in 1 .. Len(matches) :
        \/ matches[k].homeTeam = a /\ matches[k].awayTeam = b
        \/ matches[k].homeTeam = b /\ matches[k].awayTeam = a}

Appearances(a) ==
    {k \in 1 .. Len(matches) : matches[k].homeTeam = a \/ matches[k].awayTeam = a}

\* C17: for teams with pairwise distinct ids, validateTournamentStructure
\* answers valid only if there are exactly 7 teams and 21 matches, every match
\* names two distinct existing teams, every two distinct teams meet in exactly
\* one match, and every team appears in exactly 6 matches.
C17_ValidOnlyIfRoundRobin ==
    (lastOp.name = "validateTournamentStructure" /\ lastResult = "valid") =>
        /\ Len(teams) = 7
        /\ Len(matches) = 21
        /\ \A k \in 1 .. Len(matches) :
              /\ matches[k].homeTeam # matches[k].awayTeam
              /\ TeamExists(matches[k].homeTeam)
              /\ TeamExists(matches[k].awayTeam)
        /\ \A i, j \in 1 .. Len(teams) :
              i # j => Cardinality(Meetings(teams[i].id, teams[j].id)) = 1
        /\ \A i \in 1 .. Len(teams) : Cardinality(Appearances(teams[i].id)) = 6

\* a round robin with two fixtures turned round was found valid
C17_Witness ==
    /\ lastOp.name = "validateTournamentStructure"
    /\ lastResult = "valid"
    /\ matches[1].homeTeam = <<"T2">>
    /\ matches[2].homeTeam = <<"T3">>
    /\ matches[2].awayTeam = <<"T1">>

(***************************************************************************)
(* The reference aggregate of C7, counted match by match.                  *)
(***************************************************************************)
Involving(id) ==
    {i \in CountedMatches : matches[i].homeTeam = id \/ matches[i].awayTeam = id}

ScoredBy(i, id) == IF matches[i].homeTeam = id THEN matches[i].homeGoals ELSE matches[i].awayGoals
ConcededBy(i, id) == IF matches[i].homeTeam = id THEN matches[i].awayGoals ELSE matches[i].homeGoals

RECURSIVE SumScored(_, _)
SumScored(S, id) ==
    IF S = {} THEN 0
    ELSE LET i == CHOOSE x \in S : TRUE IN ScoredBy(i, id) + SumScored(S \ {i}, id)

RECURSIVE SumConceded(_, _)
SumConceded(S, id) ==
    IF S = {} THEN 0
    ELSE LET i == CHOOSE x \in S : TRUE IN ConcededBy(i, id) + SumConceded(S \ {i}, id)

ReferenceRow(id) ==
    LET mine == Involving(id)
        w == Cardinality({i \in mine : ScoredBy(i, id) > ConcededBy(i, id)})
        d == Cardinality({i \in mine : ScoredBy(i, id) = ConcededBy(i, id)})
        l == Cardinality({i \in mine : ScoredBy(i, id) < ConcededBy(i, id)})
    IN [played |-> Cardinality(mine), won |-> w, drawn |-> d, lost |-> l,
        goalsFor |-> SumScored(mine, id), goalsAgainst |-> SumConceded(mine, id),
        points |-> 3 * w + d,
        goalDifference |-> SumScored(mine, id) - SumConceded(mine, id)]

RowCounters(r) ==
    [played |-> r.played, won |-> r.won, drawn |-> r.drawn, lost |-> r.lost,
     goalsFor |-> r.goalsFor, goalsAgainst |-> r.goalsAgainst,
     points |-> r.points, goalDifference |-> r.goalDifference]

\* C7: every team has one row and it equals the reference aggregate over the
\* played matches whose two teams exist; a played match that names a missing
\* team changes no row.
C7_RowsEqualReference ==
    Calculated =>
        /\ Len(standings) = Len(teams)
        /\ \A t \in 1 .. Len(teams) :
              \E i \in 1 .. Len(standings) :
                  /\ standings[i].teamId = teams[t].id
                  /\ RowCounters(standings[i]) = ReferenceRow(teams[t].id)

\* a table over one counted match and one played match that names a missing team
C7_Witness ==
    /\ Calculated
    /\ Cardinality(CountedMatches) = 1
    /\ \E i \in 1 .. Len(matches) :
          /\ IsPlayedWithGoals(matches[i])
          /\ matches[i].homeTeam = "T1"
          /\ ~TeamExists(matches[i].awayTeam)
          /\ matches[i].homeGoals = 1

(***************************************************************************)
(* Properties of the playoff bracket (SpecSemifinals, SpecPlayoff).        *)
(***************************************************************************)
\* home and away team ids of the two semifinals
Pairing(b) ==
    <<b.semifinals[1].id, b.semifinals[1].homeTeam.id, b.semifinals[1].awayTeam.id,
      b.semifinals[2].id, b.semifinals[2].homeTeam.id, b.semifinals[2].awayTeam.id>>

SeededPairing(table) ==
    <<"semi-1", table[1].teamId, table[4].teamId, "semi-2", table[2].teamId, table[3].teamId>>

Unassigned(m) == m.homeTeam = NoTeam /\ m.awayTeam = NoTeam /\ m.status = "pending"

GeneratedBracketSeeded ==
    (lastOp.name = "generatePlayoffBracket" /\ lastResult = "bracket") =>
        LET table == calculateStandings(teams, matches)
            simple == TournamentBracket(SubSeq(table, 1, 4))
        IN /\ Pairing(bracketStructure) = SeededPairing(table)
           /\ bracketStructure.semifinals[1].homeTeam.seed = 1
           /\ bracketStructure.semifinals[1].awayTeam.seed = 4
           /\ bracketStructure.semifinals[2].homeTeam.seed = 2
           /\ bracketStructure.semifinals[2].awayTeam.seed = 3
           /\ Unassigned(bracketStructure.final)
           /\ Unassigned(bracketStructure.thirdPlace)
           /\ simple.semifinals[1].homeTeam = table[1]
           /\ simple.semifinals[1].awayTeam = table[4]
           /\ simple.semifinals[2].homeTeam = table[2]
           /\ simple.semifinals[2].awayTeam = table[3]
           /\ simple.final.homeTeam = NoTeam /\ simple.final.awayTeam = NoTeam

\* C8: a generated bracket pairs rank 1 (home) with rank 4 in semi-1 and rank 2
\* (home) with rank 3 in semi-2, with the final and the third-place match
\* pending and without teams; generating again from the same standings, over
\* whatever bracket is held, gives the same pairing.
C8_BracketSeeding ==
    /\ []GeneratedBracketSeeded
    /\ [][(DoGeneratePlayoffBracket /\ ~LoadedBracket.isNull /\ lastResult' = "bracket")
            => Pairing(bracketStructure') = Pairing(LoadedBracket)]_vars

\* a bracket generated from a table that the group stage, not the names, ordered
C8_Witness ==
    /\ lastOp.name = "generatePlayoffBracket"
    /\ lastResult = "bracket"
    /\ Len(matches) = 1
    /\ Pairing(bracketStructure) = <<"semi-1", "T3", "T5", "semi-2", "T4", "T1">>

\* C11: generatePlayoffBracket called while the table has fewer than 4 rows
\* returns no bracket, writes nothing under the playoff key and leaves the
\* bracket held in memory and the persisted one as they were.
C11_TooFewRowsNoBracket ==
    [][(DoGeneratePlayoffBracket /\ Len(teams) < 4) =>
          /\ lastResult' = "null"
          /\ bracketStructure' = bracketStructure
          /\ storedBracket' = storedBracket]_vars

\* a generation failed for want of rows while a bracket was held and persisted
C11_Witness ==
    /\ lastOp.name = "generatePlayoffBracket"
    /\ lastResult = "null"
    /\ Len(calculateStandings(teams, matches)) < 4
    /\ ~bracketStructure.isNull
    /\ ~storedBracket.isNull
    /\ bracketStructure.semifinals[1].winner # NoTeam

\* every winner, loser, champion and runner-up a bracket records
Outcomes(b) ==
    IF b.isNull THEN <<>>
    ELSE <<b.semifinals[1].winner, b.semifinals[1].loser,
           b.semifinals[2].winner, b.semifinals[2].loser,
           b.final.winner, b.final.champion, b.final.runnerUp,
           b.metadata.champion, b.metadata.runnerUp>>

DrawWithoutPenalty ==
    \/ \E id \in SemifinalIds : UpdateSemifinalResult(id, 1, 1, NoText, TRUE)
    \/ UpdateFinalResult(1, 1, NoText, TRUE)

\* C9: resolving a semifinal or the final with level goals and no penalty
\* result returns no match and sets no winner, loser, champion or runner-up,
\* in memory or in the persisted snapshot.
C9_DrawWithoutPenaltyRejected ==
    [][DrawWithoutPenalty =>
          /\ lastResult' = "null"
          /\ Outcomes(bracketStructure') \in {Outcomes(bracketStructure), Outcomes(LoadedBracket)}
          /\ storedBracket' = storedBracket]_vars

\* a final with both finalists was resolved 1-1 without a penalty result
C9_Witness ==
    /\ lastOp.name = "updateFinalResult"
    /\ lastResult = "null"
    /\ ~bracketStructure.isNull
    /\ bracketStructure.final.homeTeam # NoTeam
    /\ bracketStructure.final.homeGoals = 1
    /\ bracketStructure.final.awayGoals = 1
    /\ bracketStructure.final.champion = NoTeam

Progressed(b) ==
    b.isNull \/
    LET semi1 == b.semifinals[1]
        semi2 == b.semifinals[2]
        winners == semi1.winner # NoTeam /\ semi2.winner # NoTeam
        losers == semi1.loser # NoTeam /\ semi2.loser # NoTeam
    IN /\ (b.final.homeTeam # NoTeam \/ b.final.awayTeam # NoTeam) <=> winners
       /\ winners => /\ b.final.homeTeam = semi1.winner
                     /\ b.final.awayTeam = semi2.winner
                     /\ b.final.status = "scheduled"
       /\ (b.thirdPlace.homeTeam # NoTeam \/ b.thirdPlace.awayTeam # NoTeam) <=> losers
       /\ losers => /\ b.thirdPlace.homeTeam = semi1.loser
                    /\ b.thirdPlace.awayTeam = semi2.loser
                    /\ b.thirdPlace.status = "scheduled"

\* C10: after any sequence of semifinal resolutions on a generated bracket, the
\* final has teams exactly when both semifinals have a winner, and then they are
\* the winners of semi-1 and semi-2 with status scheduled; the third-place match
\* likewise with the two losers.
C10_BracketProgression == Progressed(bracketStructure) /\ Progressed(storedBracket)

\* both semifinals resolved, one by an away win and one on penalties
C10_Witness ==
    /\ lastOp.name = "updateSemifinalResult"
    /\ lastResult = "match"
    /\ bracketStructure.semifinals[1].winner = bracketStructure.semifinals[1].awayTeam
    /\ bracketStructure.semifinals[2].penaltyResult = "home"
    /\ bracketStructure.semifinals[2].winner = bracketStructure.semifinals[2].homeTeam
    /\ bracketStructure.final.homeTeam = bracketStructure.semifinals[1].awayTeam
    /\ bracketStructure.thirdPlace.awayTeam = bracketStructure.semifinals[2].awayTeam

\* the results a bracket records: champion and runner-up, the result of the
\* final and the results of the two semifinals
Results(b) ==
    <<b.metadata.tournamentPhase, b.metadata.champion, b.metadata.runnerUp,
      b.final.homeTeam, b.final.awayTeam, b.final.homeGoals, b.final.awayGoals,
      b.final.winner, b.final.champion, b.final.runnerUp,
      [k \in 1 .. 2 |-> <<b.semifinals[k].homeGoals, b.semifinals[k].awayGoals,
                          b.semifinals[k].winner, b.semifinals[k].loser>>]>>

Completed(b) == ~b.isNull /\ b.metadata.tournamentPhase = "completed"

\* C18: once the final is resolved and the phase of the bracket is completed,
\* no PlayoffEngine operation changes the champion, the runner-up, the result
\* of the final or the results of the semifinals, in the bracket the engine
\* holds or in the persisted one.
C18_CompletedIsTerminal ==
    [][/\ (Completed(bracketStructure) /\ ~bracketStructure'.isNull)
            => Results(bracketStructure') = Results(bracketStructure)
       /\ Completed(storedBracket)
            => (~storedBracket'.isNull /\ Results(storedBracket') = Results(storedBracket))]_vars

\* a semifinal of the bracket the engine works on has a winner
Resolved(k) == ~LoadedBracket.isNull /\ LoadedBracket.semifinals[k].winner # NoTeam

\* the teams of the final and of the third-place match
Finalists(b) ==
    <<b.final.homeTeam, b.final.awayTeam, b.thirdPlace.homeTeam, b.thirdPlace.awayTeam>>

\* C19: once a semifinal has a winner, a later updateSemifinalResult for the
\* same match id is rejected, and the goals, winner and loser of that match
\* and the teams of the final and the third-place match stay as they were.
C19_SemifinalTerminal ==
    [][\A k \in 1 .. 2 :
          (/\ Resolved(k)
           /\ \E r \in PlayoffResults :
                 UpdateSemifinalResult(LoadedBracket.semifinals[k].id, r[1], r[2], r[3], TRUE))
          => /\ lastResult' = "null"
             /\ bracketStructure'.semifinals[k] = LoadedBracket.semifinals[k]
             /\ Finalists(bracketStructure') = Finalists(LoadedBracket)]_vars

\* the final of the bracket the engine works on has no teams yet
FinalUnready == LoadedBracket.isNull \/ LoadedBracket.final.homeTeam = NoTeam

\* C20: updateFinalResult called while the final has no teams yet (no bracket
\* generated, or fewer than two semifinals resolved) returns no match, sets no
\* champion or runner-up and leaves the phase of the bracket unchanged: the
\* bracket in memory and the persisted one stay as they were.
C20_UnreadyFinalRejected ==
    [][(FinalUnready /\ DoUpdateFinalResult) =>
          /\ lastResult' = "null"
          /\ bracketStructure' = bracketStructure
          /\ storedBracket' = storedBracket]_vars

\* the final was resolved 1-0 with one semifinal still open
C20_Witness ==
    /\ lastOp.name = "updateFinalResult"
    /\ lastResult = "null"
    /\ ~bracketStructure.isNull
    /\ bracketStructure.semifinals[1].winner # NoTeam
    /\ bracketStructure.semifinals[2].winner = NoTeam
    /\ bracketStructure.final.homeTeam = NoTeam
    /\ bracketStructure.final.homeGoals = Null
    /\ bracketStructure.metadata.tournamentPhase = "playoffs"


\* getPlayoffBracket(): the bracket a caller is shown
getPlayoffBracket == LoadedBracket

\* a match of the bracket marked completed with nobody recorded as its winner
PartialEffect(b) ==
    /\ ~b.isNull
    /\ \/ \E k \in 1 .. 2 : /\ b.semifinals[k].status = "completed"
                            /\ b.semifinals[k].winner = NoTeam
       \/ b.final.status = "completed" /\ b.final.champion = NoTeam

\* C21: a failed updateSemifinalResult or updateFinalResult (unknown semifinal
\* id, final without teams, level score without a penalty result) leaves the
\* persisted snapshot and the bracket shown by getPlayoffBracket as they were,
\* and no later operation persists goals or a completed status written by the
\* failed call.
C21_FailedResolutionLeavesBracket ==
    /\ [][(/\ lastOp'.name \in {"updateSemifinalResult", "updateFinalResult"}
           /\ lastResult' = "null")
          => /\ storedBracket' = storedBracket
             /\ getPlayoffBracket' = getPlayoffBracket]_vars
    /\ [](~PartialEffect(storedBracket))


(***************************************************************************)
(* The operations of the core with store saves that may fail               *)
(* (specification SpecSaves).                                              *)
(***************************************************************************)
\* the fixtures: one played, and m1 between the second and the fourth name
SavesMatches ==
    <<Match("g1", RamadanDayMin, "T3", "T2", 1, 0, "played", NoText, NoText),
      Match("m1", RamadanDayMin + 1, "T4", "T1", Null, Null, "scheduled", NoText, NoText)>>

InitSaves ==
    /\ teams = recalculateAllStatistics(PlayoffTeams, SavesMatches, TRUE)
    /\ matches = SavesMatches
    /\ bracketStructure = NullBracket
    /\ storedBracket = NullBracket
    /\ standings = <<>>
    /\ writers = IdleWriters
    /\ lastOp = Op("init")
    /\ lastResult = "none"

\* updateTeamStatistics(match) gets as far as its storage.save
ReachesTeamsSave(tms, m) ==
    /\ IsPlayedWithGoals(m)
    /\ FindIndex(tms, m.homeTeam) # 0
    /\ FindIndex(tms, m.awayTeam) # 0

\* updateResult performed a save, of the matches or of the teams, that failed
UpdateResultSaveFailed(id, hg, ag, bestPlayer, okM, okT) ==
    LET i == FindIndex(matches, id)
        match == ResultApplied(matches[i], hg, ag, bestPlayer)
    IN /\ i # 0
       /\ \/ ~okM
          \/ match.status = "played" /\ ReachesTeamsSave(teams, match) /\ ~okT

\* setMatchStatus performed a save that failed
SetMatchStatusSaveFailed(id, status, reason, okM, okT) ==
    LET i == FindIndex(matches, id)
        match == StatusApplied(matches[i], status, reason)
        error == setMatchStatusError(matches, id, status, reason, okM)
    IN \/ error = "save_failed"
       \/ /\ error = "none"
          /\ ~okT
          /\ \/ matches[i].status = "played" /\ status # "played"
             \/ status = "played" /\ ReachesTeamsSave(teams, match)

\* deleteMatch performed a save that failed
DeleteMatchSaveFailed(id, okM, okT) ==
    LET i == FindIndex(matches, id)
    IN /\ i # 0
       /\ \/ ~okM
          \/ matches[i].status = "played" /\ ~okT

\* the score entered while saves may fail
SavesScores == {<<1, 0>>}

DoUpdateResultSaving ==
    \E id \in MatchIds, sc \in SavesScores, okM \in BOOLEAN, okT \in BOOLEAN :
        UpdateResult(id, sc[1], sc[2], NoText, okM, okT)

DoSetMatchStatusSaving ==
    \E id \in MatchIds, status \in validStatuses, okM \in BOOLEAN, okT \in BOOLEAN :
        SetMatchStatus(id, status, "rain", okM, okT)

DoDeleteMatchSaving ==
    \E id \in MatchIds, okM \in BOOLEAN, okT \in BOOLEAN : DeleteMatch(id, okM, okT)

DoGeneratePlayoffBracketSaving == \E okS \in BOOLEAN : GeneratePlayoffBracket(okS)

DoUpdateSemifinalResultSaving ==
    \E id \in SemifinalIds, okS \in BOOLEAN : UpdateSemifinalResult(id, 1, 0, NoText, okS)

DoUpdateFinalResultSaving == \E okS \in BOOLEAN : UpdateFinalResult(1, 0, NoText, okS)

NextSaves ==
    \/ DoUpdateResultSaving
    \/ DoSetMatchStatusSaving
    \/ DoDeleteMatchSaving
    \/ DoGeneratePlayoffBracketSaving
    \/ DoUpdateSemifinalResultSaving
    \/ DoUpdateFinalResultSaving

SpecSaves == InitSaves /\ [][NextSaves]_vars

\* C22: no core operation reports success when a store save it performed
\* failed: updateResult, setMatchStatus and deleteMatch report a failure when
\* the save of the matches or of the recomputed team statistics fails, and
\* generatePlayoffBracket, updateSemifinalResult and updateFinalResult return
\* nothing when the save of the bracket fails.
C22_FailedSaveReported ==
    [][/\ lastOp'.name = "updateResult" =>
            \A id \in MatchIds, sc \in SavesScores, okM \in BOOLEAN, okT \in BOOLEAN :
                (/\ UpdateResultSaveFailed(id, sc[1], sc[2], NoText, okM, okT)
                 /\ UpdateResult(id, sc[1], sc[2], NoText, okM, okT))
                => lastResult' = "failure"
       /\ lastOp'.name = "setMatchStatus" =>
            \A id \in MatchIds, status \in validStatuses, okM \in BOOLEAN, okT \in BOOLEAN :
                (/\ SetMatchStatusSaveFailed(id, status, "rain", okM, okT)
                 /\ SetMatchStatus(id, status, "rain", okM, okT))
                => lastResult' # "success"
       /\ lastOp'.name = "deleteMatch" =>
            \A id \in MatchIds, okM \in BOOLEAN, okT \in BOOLEAN :
                (DeleteMatchSaveFailed(id, okM, okT) /\ DeleteMatch(id, okM, okT))
                => lastResult' = "failure"
       /\ (lastOp'.name = "generatePlayoffBracket" /\ GeneratePlayoffBracket(FALSE))
            => (Len(calculateStandings(teams, matches)) >= 4 => lastResult' = "null")
       /\ lastOp'.name = "updateSemifinalResult" =>
            \A id \in SemifinalIds :
                (/\ ~LoadedBracket.isNull
                 /\ SemifinalIndex(LoadedBracket, id) # 0
                 /\ UpdateSemifinalResult(id, 1, 0, NoText, FALSE))
                => lastResult' = "null"
       /\ (lastOp'.name = "updateFinalResult" /\ UpdateFinalResult(1, 0, NoText, FALSE))
            => ((~bracketStructure.isNull /\ bracketStructure.final.homeTeam # NoTeam)
                    => lastResult' = "null")]_vars


(***************************************************************************)
(* The phase of the tournament over match and playoff operations           *)
(* (specification SpecPhase).                                              *)
(***************************************************************************)
\* getTournamentPhase(): the phase it reports for a stored matches collection
\* and the bracket it works on
getTournamentPhase(ms, b) ==
    IF Len(SelectSeq(ms, LAMBDA m : m.status = "played")) < Len(ms) THEN "group_stage"
    ELSE IF b.isNull THEN "playoffs_pending"
    ELSE IF b.final.status = "completed" THEN "tournament_completed"
    ELSE IF b.final.status = "scheduled" THEN "final_scheduled"
    ELSE IF b.semifinals[1].status = "completed" /\ b.semifinals[2].status = "completed"
    THEN "semifinals_completed"
    ELSE IF b.semifinals[1].status = "scheduled" \/ b.semifinals[2].status = "scheduled"
    THEN "semifinals_in_progress"
    ELSE "playoffs_ready"

\* the call itself: past the group stage it loads the bracket into an empty memory
GetTournamentPhase ==
    LET phase == getTournamentPhase(matches, LoadedBracket)
    IN /\ bracketStructure' = IF phase = "group_stage" THEN bracketStructure ELSE LoadedBracket
       /\ lastOp' = Op("getTournamentPhase")
       /\ lastResult' = phase
       /\ UNCHANGED <<teams, matches, storedBracket, standings, writers>>

InitPhase ==
    /\ teams = recalculateAllStatistics(PlayoffTeams, SavesMatches, TRUE)
    /\ matches = SavesMatches
    /\ bracketStructure = NullBracket
    /\ storedBracket = NullBracket
    /\ standings = <<>>
    /\ writers = IdleWriters
    /\ lastOp = Op("init")
    /\ lastResult = "none"

\* the results entered for a semifinal: decisive, or level without penalties
SemifinalPhaseResults == {<<1, 0, NoText>>, <<1, 1, NoText>>}

DoUpdatePhaseResult ==
    \E id \in MatchIds, sc \in SavesScores : UpdateResult(id, sc[1], sc[2], NoText, TRUE, TRUE)

DoSetPhaseStatus ==
    \E id \in MatchIds, status \in validStatuses : SetMatchStatus(id, status, "rain", TRUE, TRUE)

DoUpdatePhaseSemifinal ==
    \E id \in SemifinalIds \ {"semi-3"}, r \in SemifinalPhaseResults :
        UpdateSemifinalResult(id, r[1], r[2], r[3], TRUE)

DoUpdatePhaseFinal == UpdateFinalResult(1, 0, NoText, TRUE)

NextPhase ==
    \/ DoUpdatePhaseResult
    \/ DoSetPhaseStatus
    \/ DoGeneratePlayoffBracket
    \/ DoUpdatePhaseSemifinal
    \/ DoUpdatePhaseFinal
    \/ GetTournamentPhase
    \/ NewPlayoffEngine

SpecPhase == InitPhase /\ [][NextPhase]_vars

\* the chain of phases, in order
PhaseChain ==
    <<"group_stage", "playoffs_ready", "semifinals_in_progress", "semifinals_completed",
      "final_scheduled", "tournament_completed">>

PhaseRank(phase) == CHOOSE k \in 1 .. Len(PhaseChain) : PhaseChain[k] = phase

InChain(phase) == \E k \in 1 .. Len(PhaseChain) : PhaseChain[k] = phase

\* the phase getTournamentPhase would report in the current state
ReportedPhase == getTournamentPhase(matches, LoadedBracket)

\* C23: over any sequence of match and playoff operations, the phase reported
\* by getTournamentPhase never moves from a phase of the chain group_stage,
\* playoffs_ready, semifinals_in_progress, semifinals_completed,
\* final_scheduled, tournament_completed to an earlier phase of the chain.
C23_PhaseNeverMovesBack ==
    [][(InChain(ReportedPhase) /\ InChain(ReportedPhase'))
          => PhaseRank(ReportedPhase') >= PhaseRank(ReportedPhase)]_vars


(***************************************************************************)
(* Two writers inside updateResult at once (specification SpecWriters).    *)
(* Each call is split at its accesses to the store: the load of the        *)
(* matches, the save of the matches, and updateTeamStatistics.             *)
(***************************************************************************)
WriterMatches ==
    <<Match("m1", RamadanDayMin, "T1", "T2", Null, Null, "scheduled", NoText, NoText),
      Match("m2", RamadanDayMin + 1, "T2", "T1", Null, Null, "scheduled", NoText, NoText)>>

WriterMatchIds == {"m1", "m2"}
\* the results the writers enter
WriterScores == {<<MaxGoals, 0>>, <<0, MaxGoals>>, <<MaxGoals, MaxGoals>>}

InitWriters ==
    /\ teams = <<Team("T1", 2), Team("T2", 1)>>
    /\ matches = WriterMatches
    /\ bracketStructure = NullBracket
    /\ storedBracket = NullBracket
    /\ standings = <<>>
    /\ writers = IdleWriters
    /\ lastOp = Op("init")
    /\ lastResult = "none"

\* the number of writers whose save of the matches is done
SavesDone == Cardinality({w \in Writers : writers[w].pc \in {"saved", "done"}})

\* the match a writer has found by id in the collection it loaded, with the
\* result written into it
WriterMatch(w) ==
    LET data == writers[w].matchesData
        i == FindIndex(data, writers[w].matchId)
    IN ResultApplied(data[i], writers[w].homeGoals, writers[w].awayGoals, NoText)

\* updateResult(matchId, result) up to and including storage.load
WriterLoad(w, id, hg, ag) ==
    /\ writers[w].pc = "idle"
    /\ writers' = [writers EXCEPT ![w] =
                      [pc |-> "loaded", matchId |-> id, homeGoals |-> hg, awayGoals |-> ag,
                       matchesData |-> matches, loadedAfter |-> SavesDone, savedAfter |-> 0]]
    /\ UNCHANGED <<teams, matches, bracketStructure, storedBracket, standings,
                   lastOp, lastResult>>

\* a save that writes only the writer's own match into the collection stored now
WriterSave_OwnMatchOnly(w) ==
    /\ writers[w].pc = "loaded"
    /\ matches' = [matches EXCEPT ![FindIndex(matches, writers[w].matchId)] = WriterMatch(w)]
    /\ writers' = [writers EXCEPT ![w].pc = "saved", ![w].savedAfter = SavesDone]
    /\ UNCHANGED <<teams, bracketStructure, storedBracket, standings, lastOp, lastResult>>

\* the result written into the loaded collection, and storage.save of the whole
\* collection
WriterSave(w) ==
    /\ writers[w].pc = "loaded"
    /\ matches' = [writers[w].matchesData EXCEPT
                      ![FindIndex(writers[w].matchesData, writers[w].matchId)] = WriterMatch(w)]
    /\ writers' = [writers EXCEPT ![w].pc = "saved", ![w].savedAfter = SavesDone]
    /\ UNCHANGED <<teams, bracketStructure, storedBracket, standings, lastOp, lastResult>>

\* updateTeamStatistics(match) and the return of updateResult
WriterStatistics(w) ==
    /\ writers[w].pc = "saved"
    /\ teams' = IF WriterMatch(w).status = "played"
                THEN updateTeamStatistics(teams, WriterMatch(w), TRUE) ELSE teams
    /\ writers' = [writers EXCEPT ![w].pc = "done"]
    /\ lastOp' = Op("updateResult")
    /\ lastResult' = "success"
    /\ UNCHANGED <<matches, bracketStructure, storedBracket, standings>>

DoWriterLoad ==
    \E w \in Writers, id \in WriterMatchIds, sc \in WriterScores : WriterLoad(w, id, sc[1], sc[2])

DoWriterSave == \E w \in Writers : WriterSave(w)

DoWriterStatistics == \E w \in Writers : WriterStatistics(w)

NextWriters ==
    \/ DoWriterLoad
    \/ DoWriterSave
    \/ DoWriterStatistics

SpecWriters == InitWriters /\ [][NextWriters]_vars

\* both writers have saved, on different matches, and both loaded the matches
\* before either saved; `later` saved after `earlier`
Raced(earlier, later) ==
    /\ earlier # later
    /\ writers[earlier].pc \in {"saved", "done"}
    /\ writers[later].pc \in {"saved", "done"}
    /\ writers[earlier].matchId # writers[later].matchId
    /\ writers[earlier].loadedAfter = 0
    /\ writers[later].loadedAfter = 0
    /\ writers[earlier].savedAfter = 0
    /\ writers[later].savedAfter = 1

\* C24: when two writers run updateResult on two different matches and both
\* load the matches before either saves, the stored collection ends up as the
\* later writer saved it: it holds the later writer's result, and the match of
\* the earlier writer is as it was loaded, without the earlier writer's result.
C24_LaterSaveWins ==
    \A earlier \in Writers, later \in Writers :
        Raced(earlier, later) =>
            LET i == FindIndex(matches, writers[later].matchId)
                j == FindIndex(matches, writers[earlier].matchId)
            IN /\ matches[i] = WriterMatch(later)
               /\ matches[j] = WriterMatches[j]
               /\ matches[j] # WriterMatch(earlier)
               /\ matches = [WriterMatches EXCEPT ![i] = WriterMatch(later)]

\* A entered 1-0 for m1 and saved first, B entered 0-1 for m2 and saved last,
\* and both calls have returned
C24_Witness ==
    /\ Raced("A", "B")
    /\ writers["A"].pc = "done"
    /\ writers["B"].pc = "done"
    /\ writers["A"].matchId = "m1"
    /\ writers["A"].homeGoals = MaxGoals
    /\ writers["B"].homeGoals = 0
    /\ matches[1].status = "scheduled"
    /\ matches[2].status = "played"
    /\ lastResult = "success"


(***************************************************************************)
(* calculateStandings over stores of no team up to six teams               *)
(* (specification SpecTable).                                              *)
(***************************************************************************)
TableTeams ==
    <<Team("T1", 3), Team("T2", 1), Team("T3", 5), Team("T4", 2), Team("T5", 4),
      Team("T6", 6)>>

\* the matches handed in: results among the first, the fifth and the sixth team
TableMatches ==
    {Match("m", RamadanDayMin, pr[1], pr[2], sc[1], sc[2], "played", NoText, NoText) :
        pr \in {<<"T5", "T1">>, <<"T6", "T5">>}, sc \in {<<1, 0>>, <<0, 1>>, <<1, 1>>}}

InitTable ==
    /\ teams \in {SubSeq(TableTeams, 1, n) : n \in 0 .. Len(TableTeams)}
    /\ matches \in SeqsUpTo(TableMatches, MaxArgMatches)
    /\ bracketStructure = NullBracket
    /\ storedBracket = NullBracket
    /\ standings = <<>>
    /\ writers = IdleWriters
    /\ lastOp = Op("init")
    /\ lastResult = "none"

NextTable == CalculateStandings

SpecTable == InitTable /\ [][NextTable]_vars

\* C25: in the table calculateStandings returns for n teams, the positions are
\* 1..n in output order, a row is qualified exactly when its position is at
\* most 4, and so min(4, n) rows are qualified.
C25_PositionsAndQualification ==
    Calculated =>
        LET n == Len(teams)
        IN /\ Len(standings) = n
           /\ \A i \in 1 .. n :
                 /\ standings[i].position = i
                 /\ standings[i].qualified <=> standings[i].position <= 4
           /\ Cardinality({i \in 1 .. n : standings[i].qualified}) = Min(4, n)

\* a table of six rows where the results, not the store order, put the sixth
\* team among the four qualified rows and left the fifth row out
C25_Witness ==
    /\ Calculated
    /\ Len(standings) = 6
    /\ standings[1].teamId = "T6"
    /\ standings[4].qualified
    /\ ~standings[5].qualified
    /\ standings[5].position = 5
    /\ standings[6].teamId = "T5"


\* the cached statistics are what a full recalculation over the stored
\* matches gives
CacheEqualsRecalculation(tms, ms) == tms = recalculateAllStatistics(tms, ms, TRUE)

\* updateResult with both goals on a stored match that is scheduled or postponed
ResultEntered ==
    \E id \in MatchIds, hg \in Goals, ag \in Goals, bp \in BestPlayerInputs :
        /\ FindIndex(matches, id) # 0
        /\ matches[FindIndex(matches, id)].status \in {"scheduled", "postponed"}
        /\ UpdateResult(id, hg, ag, bp, TRUE, TRUE)

\* C26: when the cached statistics equal the replay of the played matches and
\* updateResult with both goals turns a scheduled or postponed match into a
\* played one, the incremental update leaves every team's statistics equal to
\* what a full recalculation over the new matches gives.
C26_IncrementalEqualsRecalculation ==
    [][(/\ lastOp'.name = "updateResult"
        /\ CacheEqualsRecalculation(teams, matches)
        /\ ResultEntered)
       => /\ matches'[FindIndex(matches', "m1")].status = "played"
          /\ CacheEqualsRecalculation(teams', matches')]_vars

\* a postponed match got a 1-1 through updateResult: both teams have two
\* played matches in the cache, as in the replay
C26_Witness ==
    /\ lastOp.name = "updateResult"
    /\ lastResult = "success"
    /\ Len(matches) = 2
    /\ \E i \in 1 .. 2 :
          /\ matches[i].id = "m1"
          /\ matches[i].status = "played"
          /\ matches[i].postponementReason = "rain"
          /\ matches[i].homeGoals = 1
          /\ matches[i].awayGoals = 1
    /\ \A i \in 1 .. Len(teams) :
          /\ teams[i].statistics.played = 2
          /\ teams[i].statistics.drawn = 1
    /\ CacheEqualsRecalculation(teams, matches)


\* two matches of the list pair the same two teams, in either orientation
DuplicatePair ==
    \E j, k \in 1 .. Len(matches) :
        /\ j < k
        /\ {matches[j].homeTeam, matches[j].awayTeam}
              = {matches[k].homeTeam, matches[k].awayTeam}

MissingTeamId ==
    \E k \in 1 .. Len(matches) :
        ~TeamExists(matches[k].homeTeam) \/ ~TeamExists(matches[k].awayTeam)

\* the first violated check, taking the checks one after the other over the
\* whole input: team count, match count, duplicate pair, missing team id,
\* matches per team
FirstViolatedCheck ==
    IF Len(teams) # 7 THEN "team_count"
    ELSE IF Len(matches) # 21 THEN "match_count"
    ELSE IF DuplicatePair THEN "duplicate_match"
    ELSE IF MissingTeamId THEN "invalid_team"
    ELSE IF \E i \in 1 .. Len(teams) : Cardinality(Appearances(teams[i].id)) # 6
    THEN "team_matches"
    ELSE "valid"

\* C27: validateTournamentStructure returns the error of the first violated
\* check in the order team count, match count, duplicate unordered pair, match
\* with a missing team id, matches per team; a duplicate pair anywhere in the
\* list is reported before any missing team id.
C27_FirstViolatedCheckReported ==
    lastOp.name = "validateTournamentStructure" => lastResult = FirstViolatedCheck


\* winner and loser of a semifinal are set and are the ones its goals, or its
\* penalty result when the goals are level, point to
OutcomeAgrees(m) ==
    /\ m.winner # NoTeam
    /\ m.loser # NoTeam
    /\ m.homeGoals > m.awayGoals => (m.winner = m.homeTeam /\ m.loser = m.awayTeam)
    /\ m.awayGoals > m.homeGoals => (m.winner = m.awayTeam /\ m.loser = m.homeTeam)
    /\ m.homeGoals = m.awayGoals =>
          /\ m.penaltyResult \in {"home", "away"}
          /\ m.winner = (IF m.penaltyResult = "home" THEN m.homeTeam ELSE m.awayTeam)
          /\ m.loser = (IF m.penaltyResult = "home" THEN m.awayTeam ELSE m.homeTeam)

CompletedHasOutcome(b) ==
    b.isNull \/
    /\ \A k \in 1 .. 2 : b.semifinals[k].status = "completed" => OutcomeAgrees(b.semifinals[k])
    /\ b.final.status = "completed" =>
          (b.final.champion # NoTeam /\ b.final.runnerUp # NoTeam)

\* C28: in every bracket the PlayoffEngine operations reach, in memory or
\* persisted, a semifinal with status completed has a winner and a loser that
\* agree with its goals or its penalty result, and a final with status
\* completed has a champion and a runner-up.
C28_CompletedHasOutcome ==
    CompletedHasOutcome(bracketStructure) /\ CompletedHasOutcome(storedBracket)


(***************************************************************************)
(* The two full rebuilds of the cached statistics over stores with any     *)
(* cache and a list of stored matches (specification SpecRebuild).         *)
(***************************************************************************)
\* statistics left in the cache by earlier operations, right or wrong
DriftedStatistics ==
    [played |-> 2, won |-> 1, drawn |-> 0, lost |-> 1,
     goalsFor |-> MaxGoals, goalsAgainst |-> 0, points |-> WinPoints]

RebuildTeams ==
    {[i \in 1 .. Len(order) |-> [order[i] EXCEPT !.statistics = st[i]]] :
        order \in {StandingsTeams, Reverse(StandingsTeams)},
        st \in [1 .. Len(StandingsTeams) -> {ZeroStatistics, DriftedStatistics}]}

\* the stored matches: results among the three teams and against a team that
\* has no record, a scheduled match with goals and a played one without
RebuildMatches ==
    {Match("m", RamadanDayMin, pr[1], pr[2], sc[1], sc[2], "played", NoText, NoText) :
        pr \in {<<"T1", "T2">>, <<"T3", "T1">>, <<"T1", "T9">>},
        sc \in {<<MaxGoals, 0>>, <<0, MaxGoals>>, <<MaxGoals, MaxGoals>>}}
    \cup {Match("m", RamadanDayMin, "T2", "T3", 1, 0, "scheduled", NoText, NoText),
          Match("m", RamadanDayMin, "T2", "T3", Null, 1, "played", NoText, NoText)}

InitRebuild ==
    /\ teams \in RebuildTeams
    /\ matches \in SeqsUpTo(RebuildMatches, MaxArgMatches)
    /\ bracketStructure = NullBracket
    /\ storedBracket = NullBracket
    /\ standings = <<>>
    /\ writers = IdleWriters
    /\ lastOp = Op("init")
    /\ lastResult = "none"

NextRebuild ==
    \/ DoRecalculateAllStatistics
    \/ DoUpdateStoredStatistics

SpecRebuild == InitRebuild /\ [][NextRebuild]_vars

\* C29: for any stored teams and matches, MatchEngine.recalculateAllStatistics
\* and StandingsCalculator.updateStoredStatistics write the same played, won,
\* drawn, lost, goalsFor, goalsAgainst and points for every team.
C29_RebuildsAgree ==
    LET recalculated == recalculateAllStatistics(teams, matches, TRUE)
        stored == updateStoredStatistics(teams, matches, TRUE)
    IN \A i \in 1 .. Len(teams) :
          /\ recalculated[i].id = stored[i].id
          /\ \A f \in {"played", "won", "drawn", "lost", "goalsFor", "goalsAgainst", "points"} :
                recalculated[i].statistics[f] = stored[i].statistics[f]

\* updateStoredStatistics has replaced a cache that was wrong for every team:
\* T1 lost at home to T2 and drew with T3, and no team has the old counters
C29_Witness ==
    /\ lastOp.name = "updateStoredStatistics"
    /\ lastResult = "true"
    /\ Len(matches) = 2
    /\ \E i \in 1 .. Len(teams) :
          /\ teams[i].id = "T1"
          /\ teams[i].statistics.played = 2
          /\ teams[i].statistics.lost = 1
          /\ teams[i].statistics.drawn = 1
          /\ teams[i].statistics.goalsAgainst = 2 * MaxGoals
    /\ \A i \in 1 .. Len(teams) : teams[i].statistics # DriftedStatistics
    /\ teams = recalculateAllStatistics(teams, matches, TRUE)


\* a freshly constructed engine: nothing in memory, and a persisted bracket
\* whose final has both finalists
FreshEngineFinalReady ==
    /\ bracketStructure.isNull
    /\ ~storedBracket.isNull
    /\ storedBracket.final.homeTeam # NoTeam
    /\ storedBracket.final.awayTeam # NoTeam

DecisiveFinalResult ==
    \E r \in PhaseResults : r[1] # r[2] /\ UpdateFinalResult(r[1], r[2], r[3], TRUE)

\* C30: on a freshly constructed engine whose persisted bracket has both
\* finalists, updateFinalResult with a decisive score returns the final and
\* sets the champion, in memory and in the persisted bracket, as it does on
\* the engine that resolved the semifinals.
C30_FreshEngineResolvesFinal ==
    [][(/\ lastOp'.name = "updateFinalResult"
        /\ FreshEngineFinalReady
        /\ DecisiveFinalResult)
       => /\ lastResult' = "match"
          /\ ~bracketStructure'.isNull
          /\ bracketStructure'.final.champion # NoTeam
          /\ storedBracket'.final.champion = bracketStructure'.final.champion]_vars

====
